---- MODULE Spec2Model ----
(***************************************************************************)
(* A model of the document-template customizer: the section parser         *)
(* (parseAsciiDocSections), the label matcher (matchesAllLabels), the      *)
(* decision builder and keep mask (buildSectionDecisions, createKeepMask), *)
(* the content reassembler (filterPartContent) and the orchestration       *)
(* (buildFilteredPartsFromResult).                                         *)
(*                                                                         *)
(* A document is the array `lines` that rawContent.split(/\r?\n/) yields.  *)
(* A line is a record; its kind `k` says which of the source's regular     *)
(* expressions match it:                                                   *)
(*   "h"  a "#" heading (level, title)                                     *)
(*   "m"  a metadata marker; form "slash" is //<tag>{json}, form "html"    *)
(*        is <!--<tag>{json}-->; json is the payload                       *)
(*   "a"  an attribute line  :key: value                                   *)
(*   "b"  a line of prose                                                  *)
(*   "x"  a "#" followed by white space only, which                        *)
(*        findFirstLevelOneHeadingIndex reads as a level-1 heading and     *)
(*        the two HEADING_REGEX do not                                     *)
(*   "e"  the empty string                                                 *)
(* Line numbers are 0-based as in the source: line i is lines[i + 1].      *)
(* Headings written with "=" are not modelled: the parser in src/ reads    *)
(* "#" headings only.                                                      *)
(***************************************************************************)
EXTENDS Integers, Sequences, FiniteSets, TLC

VARIABLES
    lines,      \* the document under edit
    opts,       \* the options of the last filterPartContent call
    res,        \* what that call returned
    matcher,    \* a call of matchesAllLabels: its arguments and its result
    build,      \* a call of buildFilteredPartsFromResult: arguments, locals, outcome
    fetch,      \* a call of fetchTemplateAndParts: arguments, workers, outcome
    pc          \* where the run is

vars == <<lines, opts, res, matcher, build, fetch, pc>>

(***************************************************************************)
(* Bounds of the model.                                                    *)
(***************************************************************************)
MaxLines == 5

MaxLabels == 2

MaxCandidates == 2

MaxParts == 2

MaxSelected == 2

MaxFetch == 3

MaxConcurrency == 2

MaxDropRules == 2

\* the concurrency of a call that asks for none
DefaultConcurrency == 6

(***************************************************************************)
(* Strings. A title or a drop title is [base, upper, pad]: its letters,    *)
(* whether they are written in upper case, and whether white space         *)
(* surrounds them. A label is [s, pad]: its segments between "::" and      *)
(* whether white space surrounds it. The empty string has base "" (s =     *)
(* <<"">>).                                                                *)
(***************************************************************************)
Str(base, upper, pad) == [base |-> base, upper |-> upper, pad |-> pad]

trim(s) == [s EXCEPT !.pad = FALSE]

toLowerCase(s) == [s EXCEPT !.upper = FALSE]

NonEmptyStr(s) == s.base # "" \/ s.pad

Label(segs) == [s |-> segs, pad |-> FALSE]

PaddedLabel(segs) == [s |-> segs, pad |-> TRUE]

NonEmptyLabel(l) == l.s # <<"">> \/ l.pad

Min(a, b) == IF a < b THEN a ELSE b

Max(a, b) == IF a > b THEN a ELSE b

SeqToSet(s) == {s[i] : i \in DOMAIN s}

RECURSIVE FilterSeq(_, _)
FilterSeq(s, keepIdx) ==
    IF s = <<>> THEN <<>>
    ELSE LET rest == FilterSeq(Tail(s), {i - 1 : i \in keepIdx \ {1}})
         IN IF 1 \in keepIdx THEN <<Head(s)>> \o rest ELSE rest

(***************************************************************************)
(* Metadata. The payload of a marker line is [ok, id, labels, linkTo,      *)
(* keepContent]: ok is whether JSON.parse accepts it.                      *)
(***************************************************************************)
Json(ok, id, labels, linkTo, keepContent) ==
    [ok |-> ok, id |-> id, labels |-> labels, linkTo |-> linkTo,
     keepContent |-> keepContent]

NoMeta ==
    [defined |-> FALSE, id |-> "", labels |-> <<>>, linkTo |-> <<>>,
     keepContent |-> FALSE]

NoJson == Json(FALSE, "", <<>>, <<>>, FALSE)

NoTitle == Str("", FALSE, FALSE)

H(level, title) ==
    [k |-> "h", level |-> level, title |-> title, json |-> NoJson, form |-> "none"]

M(json, form) ==
    [k |-> "m", level |-> 0, title |-> NoTitle, json |-> json, form |-> form]

Body == [k |-> "b", level |-> 0, title |-> NoTitle, json |-> NoJson, form |-> "none"]

BareHash == [k |-> "x", level |-> 0, title |-> NoTitle, json |-> NoJson, form |-> "none"]

Attr == [k |-> "a", level |-> 0, title |-> NoTitle, json |-> NoJson, form |-> "none"]

Empty == [k |-> "e", level |-> 0, title |-> NoTitle, json |-> NoJson, form |-> "none"]

\* keep_content of the payload (the parser's reading of it is not in src/)
parseKeepContent(json) == json.ok /\ json.keepContent

parseMetadata(json) ==
    IF ~json.ok THEN NoMeta
    ELSE [defined |-> TRUE, id |-> json.id, labels |-> json.labels,
          linkTo |-> json.linkTo, keepContent |-> parseKeepContent(json)]

(***************************************************************************)
(* The section parser. The forest is kept flat: nodes in document order,   *)
(* each with its parent's index (0 for a root); a node's children are the  *)
(* nodes that name it, in document order.                                  *)
(***************************************************************************)
ParserMetadataMatch(line) == line.k = "m"

ParserHeadingMatch(line) == line.k = "h"

Trimmed(line) == line.k # "e"

RECURSIVE PopStack(_, _, _, _)
PopStack(nodes, stack, level, nodeStartLine) ==
    IF stack # <<>> /\ nodes[stack[Len(stack)]].level >= level
    THEN LET p == stack[Len(stack)]
             popped == [nodes[p] EXCEPT
                          !.endLine = Max(nodes[p].startLine, nodeStartLine - 1)]
         IN PopStack([nodes EXCEPT ![p] = popped],
                     SubSeq(stack, 1, Len(stack) - 1), level, nodeStartLine)
    ELSE [nodes |-> nodes, stack |-> stack]

\* the parser that ends a popped section on the line before the new heading,
\* not before the new section's marker
ParseLineEndAtHeading(st, lns, index) ==
    LET line == lns[index + 1] IN
    IF ParserMetadataMatch(line)
    THEN LET parsed == parseMetadata(line.json)
         IN [st EXCEPT !.pendingMetadata =
                           IF parsed.defined THEN parsed ELSE st.pendingMetadata,
                       !.pendingMetadataLine = index]
    ELSE IF ~ParserHeadingMatch(line)
    THEN IF Trimmed(line)
         THEN [st EXCEPT !.pendingMetadata = NoMeta, !.pendingMetadataLine = -1]
         ELSE st
    ELSE LET p == PopStack(st.nodes, st.stack, line.level, index)
             node == [level |-> line.level, title |-> trim(line.title),
                      metadata |-> st.pendingMetadata,
                      startLine |-> IF st.pendingMetadataLine # -1
                                    THEN st.pendingMetadataLine ELSE index,
                      endLine |-> Len(lns) - 1,
                      parent |-> IF p.stack = <<>> THEN 0 ELSE p.stack[Len(p.stack)]]
         IN [nodes |-> Append(p.nodes, node),
             stack |-> Append(p.stack, Len(p.nodes) + 1),
             pendingMetadata |-> NoMeta, pendingMetadataLine |-> -1]

ParseLine(st, lns, index) ==
    LET line == lns[index + 1] IN
    IF ParserMetadataMatch(line)
    THEN LET parsed == parseMetadata(line.json)
         IN [st EXCEPT !.pendingMetadata =
                           IF parsed.defined THEN parsed ELSE st.pendingMetadata,
                       !.pendingMetadataLine = index]
    ELSE IF ~ParserHeadingMatch(line)
    THEN IF Trimmed(line)
         THEN [st EXCEPT !.pendingMetadata = NoMeta, !.pendingMetadataLine = -1]
         ELSE st
    ELSE LET nodeStartLine ==
                 IF st.pendingMetadataLine # -1 THEN st.pendingMetadataLine ELSE index
             p == PopStack(st.nodes, st.stack, line.level, nodeStartLine)
             node == [level |-> line.level, title |-> trim(line.title),
                      metadata |-> st.pendingMetadata,
                      startLine |-> nodeStartLine, endLine |-> Len(lns) - 1,
                      parent |-> IF p.stack = <<>> THEN 0 ELSE p.stack[Len(p.stack)]]
         IN [nodes |-> Append(p.nodes, node),
             stack |-> Append(p.stack, Len(p.nodes) + 1),
             pendingMetadata |-> NoMeta, pendingMetadataLine |-> -1]

RECURSIVE ParseFrom(_, _, _)
ParseFrom(st, lns, index) ==
    IF index >= Len(lns) THEN st ELSE ParseFrom(ParseLine(st, lns, index), lns, index + 1)

\* the closing loop: every node still open ends at the last line
CloseStack(nodes, stack, lastLineIndex) ==
    [n \in DOMAIN nodes |->
        IF n \in SeqToSet(stack)
        THEN LET e1 == IF nodes[n].endLine < nodes[n].startLine
                       THEN nodes[n].startLine ELSE nodes[n].endLine
             IN [nodes[n] EXCEPT !.endLine = IF lastLineIndex > e1 THEN lastLineIndex ELSE e1]
        ELSE nodes[n]]

parseAsciiDocSections(lns) ==
    LET st == ParseFrom([nodes |-> <<>>, stack |-> <<>>,
                         pendingMetadata |-> NoMeta, pendingMetadataLine |-> -1],
                        lns, 0)
    IN CloseStack(st.nodes, st.stack, Max(0, Len(lns) - 1))

RECURSIVE ChildrenFrom(_, _, _)
ChildrenFrom(nodes, n, from) ==
    IF from > Len(nodes) THEN <<>>
    ELSE IF nodes[from].parent = n
         THEN <<from>> \o ChildrenFrom(nodes, n, from + 1)
         ELSE ChildrenFrom(nodes, n, from + 1)

\* node.children (n = 0: the roots)
Children(nodes, n) == ChildrenFrom(nodes, n, 1)

RECURSIVE Ancestors(_, _)
Ancestors(nodes, n) ==
    IF nodes[n].parent = 0 THEN {}
    ELSE {nodes[n].parent} \cup Ancestors(nodes, nodes[n].parent)

(***************************************************************************)
(* The label matcher.                                                      *)
(***************************************************************************)
normalizeLabels(labels) ==
    LET trimmedAll == [i \in DOMAIN labels |-> trim(labels[i])]
    IN FilterSeq(trimmedAll, {i \in DOMAIN labels : NonEmptyLabel(trimmedAll[i])})

\* cand.startsWith(`${ns}::`)
StartsWithNs(cand, ns) == ~cand.pad /\ Len(cand.s) >= 2 /\ cand.s[1] = ns

\* a matcher whose wildcard serves the selection only
labelMatchesSelectionWildcard(label, candidates, wildcard) ==
    LET trimmed == trim(label)
        ns == trimmed.s[1]
        val == IF Len(trimmed.s) >= 2 THEN trimmed.s[2] ELSE ""
    IN IF ~NonEmptyLabel(trimmed) THEN FALSE
       ELSE IF trimmed \in candidates THEN TRUE
       ELSE wildcard /\ ns # "" /\ val # "" /\ Label(<<ns, "*">>) \in candidates

labelMatches(label, candidates, wildcard) ==
    LET trimmed == trim(label)
        ns == trimmed.s[1]
        val == IF Len(trimmed.s) >= 2 THEN trimmed.s[2] ELSE ""
    IN IF ~NonEmptyLabel(trimmed) THEN FALSE
       ELSE IF trimmed \in candidates THEN TRUE
       ELSE IF ~wildcard THEN FALSE
       ELSE IF ns = "" THEN FALSE
       ELSE IF val # "" /\ Label(<<ns, "*">>) \in candidates THEN TRUE
       ELSE IF val = "*" /\ \E cand \in candidates : StartsWithNs(cand, ns) THEN TRUE
       ELSE FALSE

\* a matcher that accepts a section as soon as one of its labels is selected
matchesAnyLabel(labels, candidates, wildcard) ==
    \E i \in DOMAIN labels : labelMatches(labels[i], candidates, wildcard)

\* a matcher that accepts a section when it carries every selected label
matchesEverySelected(labels, candidates, wildcard) ==
    IF Len(labels) = 0 THEN FALSE
    ELSE \A cand \in candidates : \E i \in DOMAIN labels : trim(labels[i]) = cand

matchesAllLabels(labels, candidates, wildcard) ==
    IF Len(labels) = 0 THEN FALSE
    ELSE \A i \in DOMAIN labels : labelMatches(labels[i], candidates, wildcard)

(***************************************************************************)
(* The decision builder: dec[n] is the SectionDecision of node n.          *)
(***************************************************************************)
\* a decision that keeps a section only on a label match
evaluateMatchOnly(section, candidateSet, wildcard) ==
    LET labels == section.metadata.labels
        matches == matchesAllLabels(labels, candidateSet, wildcard)
    IN [matches |-> matches, keep |-> matches]

evaluate(section, candidateSet, wildcard) ==
    LET labels == section.metadata.labels
        hasLabels == Len(labels) > 0
        matches == IF hasLabels THEN matchesAllLabels(labels, candidateSet, wildcard)
                   ELSE FALSE
    IN [matches |-> matches, keep |-> IF hasLabels THEN matches ELSE TRUE]

buildSectionDecisions(nodes, labels, wildcard) ==
    [n \in DOMAIN nodes |-> evaluate(nodes[n], SeqToSet(labels), wildcard)]

\* the nodes of the forest collectMatchedSections returns: a kept node all
\* of whose ancestors are kept
collectMatchedSections(nodes, dec) ==
    {n \in DOMAIN nodes : dec[n].keep /\ \A a \in Ancestors(nodes, n) : dec[a].keep}

countSections(sections) == Cardinality(sections)

(***************************************************************************)
(* The keep mask: a function from line numbers to BOOLEAN.                 *)
(***************************************************************************)
clampLine(value, lineCount) == Min(Max(value, 0), lineCount - 1)

markRange(mask, start, end) ==
    [i \in DOMAIN mask |-> mask[i] \/ (start <= i /\ i <= end)]

RECURSIVE SortByStartLine(_, _)
SortByStartLine(nodes, set) ==
    IF set = {} THEN <<>>
    ELSE LET first == CHOOSE n \in set :
                        \A o \in set : nodes[n].startLine < nodes[o].startLine
                                       \/ (nodes[n].startLine = nodes[o].startLine /\ n <= o)
         IN <<first>> \o SortByStartLine(nodes, set \ {first})

RECURSIVE process(_, _, _, _, _)
RECURSIVE processChildren(_, _, _, _, _, _, _, _)
RECURSIVE processAll(_, _, _, _, _, _)
processChildren(mask, cursor, sortedChildren, k, sectionEnd, nodes, dec, lineCount) ==
    IF k > Len(sortedChildren) THEN [mask |-> mask, cursor |-> cursor]
    ELSE LET child == sortedChildren[k]
             childStart == clampLine(nodes[child].startLine, lineCount)
             childEnd == clampLine(nodes[child].endLine, lineCount)
         IN IF childStart > sectionEnd THEN [mask |-> mask, cursor |-> cursor]
            ELSE LET m1 == IF childStart > cursor
                           THEN markRange(mask, cursor, Min(childStart - 1, sectionEnd))
                           ELSE mask
                     m2 == process(m1, child, nodes, dec, lineCount)
                     c2 == Max(cursor, childEnd + 1)
                 IN IF c2 > sectionEnd THEN [mask |-> m2, cursor |-> c2]
                    ELSE processChildren(m2, c2, sortedChildren, k + 1, sectionEnd,
                                         nodes, dec, lineCount)

\* a walk in which a section that is kept without a match marks no line of
\* its own and only hands over to its subsections
processMatchingOnly(mask, n, nodes, dec, lineCount) ==
    IF ~dec[n].keep THEN mask
    ELSE IF ~dec[n].matches
    THEN processAll(mask, Children(nodes, n), 1, nodes, dec, lineCount)
    ELSE LET sectionStart == clampLine(nodes[n].startLine, lineCount)
             sectionEnd == clampLine(nodes[n].endLine, lineCount)
         IN IF sectionStart > sectionEnd THEN mask
            ELSE LET r == processChildren(mask, sectionStart,
                                          SortByStartLine(nodes, SeqToSet(Children(nodes, n))),
                                          1, sectionEnd, nodes, dec, lineCount)
                 IN IF r.cursor <= sectionEnd
                    THEN markRange(r.mask, r.cursor, sectionEnd)
                    ELSE r.mask

process(mask, n, nodes, dec, lineCount) ==
    IF ~dec[n].keep THEN mask
    ELSE LET sectionStart == clampLine(nodes[n].startLine, lineCount)
             sectionEnd == clampLine(nodes[n].endLine, lineCount)
         IN IF sectionStart > sectionEnd THEN mask
            ELSE LET r == processChildren(mask, sectionStart,
                                          SortByStartLine(nodes, SeqToSet(Children(nodes, n))),
                                          1, sectionEnd, nodes, dec, lineCount)
                 IN IF r.cursor <= sectionEnd
                    THEN markRange(r.mask, r.cursor, sectionEnd)
                    ELSE r.mask

processAll(mask, roots, k, nodes, dec, lineCount) ==
    IF k > Len(roots) THEN mask
    ELSE processAll(process(mask, roots[k], nodes, dec, lineCount), roots, k + 1,
                    nodes, dec, lineCount)

createKeepMask(lineCount, nodes, dec) ==
    processAll([i \in 0 .. lineCount - 1 |-> FALSE], Children(nodes, 0), 1,
               nodes, dec, lineCount)

\* the first line that reads as "# title" (-1: none)
findFirstLevelOneHeadingIndex(lns) ==
    LET hits == {i \in 0 .. Len(lns) - 1 :
                    \/ lns[i + 1].k = "h" /\ lns[i + 1].level = 1
                    \/ lns[i + 1].k = "x"}
    IN IF hits = {} THEN -1 ELSE CHOOSE i \in hits : \A j \in hits : i <= j

keepFirstLevelOneHeading(mask, lns) ==
    LET h1Index == findFirstLevelOneHeadingIndex(lns)
    IN IF h1Index # -1 THEN [mask EXCEPT ![h1Index] = TRUE] ELSE mask

(***************************************************************************)
(* The drop rules.                                                         *)
(***************************************************************************)
normalizeDropTitles(dropTitles) ==
    {toLowerCase(trim(v)) : v \in {d \in dropTitles : NonEmptyStr(toLowerCase(trim(d)))}}

\* a drop rule that applies at every level
shouldDropAnyLevel(node, dropSet) ==
    toLowerCase(trim(node.title)) \in dropSet

shouldDrop(node, dropSet) ==
    node.level >= 2 /\ toLowerCase(trim(node.title)) \in dropSet

RECURSIVE dropByNode(_, _, _, _, _)
RECURSIVE dropByNodes(_, _, _, _, _, _)
dropByNodes(mask, list, k, nodes, dropSet, lineCount) ==
    IF k > Len(list) THEN mask
    ELSE dropByNodes(dropByNode(mask, list[k], nodes, dropSet, lineCount), list, k + 1,
                     nodes, dropSet, lineCount)

dropByNode(mask, n, nodes, dropSet, lineCount) ==
    IF shouldDrop(nodes[n], dropSet)
    THEN LET start == Max(0, nodes[n].startLine)
             end == Min(lineCount - 1, nodes[n].endLine)
         IN [i \in DOMAIN mask |-> mask[i] /\ ~(start <= i /\ i <= end)]
    ELSE dropByNodes(mask, Children(nodes, n), 1, nodes, dropSet, lineCount)

applyDropRules(mask, lns, nodes, dropSet) ==
    IF dropSet # {}
    THEN keepFirstLevelOneHeading(
             dropByNodes(mask, Children(nodes, 0), 1, nodes, dropSet, Len(lns)), lns)
    ELSE mask

(***************************************************************************)
(* The content reassembler. An output line is an entry [t, i, id, refs]:   *)
(*   t = "line"     line i of the input, verbatim                          *)
(*   t = "anchor"   the anchor [#id] of the heading on line i              *)
(*   t = "seeAlso"  the See also paragraph of the heading on line i        *)
(*   t = "blank"    an empty line that insertBlankLines adds               *)
(* A content is [ls, nl]: its lines joined by "\n", and whether a newline  *)
(* ends it.                                                                *)
(***************************************************************************)
FilterMetadataMatch(line) == line.k = "m" /\ line.form = "slash"

FilterHeadingMatch(line) == line.k = "h"

FilterAttributeMatch(line) == line.k = "a"

LineEntry(i) == [t |-> "line", i |-> i, id |-> "", refs |-> <<>>]

AnchorEntry(i, id) == [t |-> "anchor", i |-> i, id |-> id, refs |-> <<>>]

\* a paragraph "TIP: See also ..." whatever the language
SeeAlsoEntryEnglish(i, refs, verb) ==
    [t |-> "seeAlso", i |-> i, id |-> "", refs |-> refs, verb |-> "See also"]

\* the paragraph "TIP: <verb> <refs joined by ', '>."
SeeAlsoEntry(i, refs, verb) ==
    [t |-> "seeAlso", i |-> i, id |-> "", refs |-> refs, verb |-> verb]

\* the verb of the paragraph in the language of the manifest (the choice is
\* not in src/, where the paragraph is always "TIP: See also ...")
localizedVerb(manifestLang) == IF manifestLang = "fr" THEN "Voir aussi" ELSE "See also"

BlankEntry == [t |-> "blank", i |-> -1, id |-> "", refs |-> <<>>]

NoLinkIndex == [x \in {} |-> 0]

RECURSIVE resolveFrom(_, _, _, _)
resolveFrom(lns, idx, last, startLine) ==
    IF idx > last THEN Max(0, startLine)
    ELSE IF FilterMetadataMatch(lns[idx + 1]) THEN resolveFrom(lns, idx + 1, last, startLine)
    ELSE IF FilterHeadingMatch(lns[idx + 1]) THEN idx
    ELSE IF Trimmed(lns[idx + 1]) THEN Max(0, startLine)
    ELSE resolveFrom(lns, idx + 1, last, startLine)

resolveHeadingLine(node, lns) ==
    resolveFrom(lns, Max(0, node.startLine), Min(Len(lns) - 1, node.endLine), node.startLine)

\* the cross-references of a node's link_to that the index resolves
RECURSIVE buildRefs(_, _, _)
buildRefs(links, linkIndex, currentFile) ==
    IF links = <<>> THEN <<>>
    ELSE LET linkId == Head(links)
             rest == buildRefs(Tail(links), linkIndex, currentFile)
         IN IF linkId \notin DOMAIN linkIndex THEN rest
            ELSE LET entry == linkIndex[linkId]
                 IN IF entry.file # "" /\ currentFile # "" /\ entry.file # currentFile
                    THEN <<[kind |-> "xref", file |-> entry.file, id |-> linkId,
                            title |-> entry.title]>> \o rest
                    ELSE <<[kind |-> "local", file |-> "", id |-> linkId,
                            title |-> entry.title]>> \o rest

\* anchors and seeAlso as functions of the heading line; the visit is in
\* document order and a later node overwrites an earlier one
RECURSIVE visitFrom(_, _, _, _, _, _, _)
visitFrom(ins, n, nodes, lns, keepMask, linkIndex, currentFile) ==
    IF n > Len(nodes) THEN ins
    ELSE LET headingLine == resolveHeadingLine(nodes[n], lns)
             id == nodes[n].metadata.id
             hasLinks == DOMAIN linkIndex # {}
             refs == buildRefs(nodes[n].metadata.linkTo, linkIndex, currentFile)
             a1 == IF keepMask[headingLine] /\ id # ""
                   THEN [ins.anchors EXCEPT ![headingLine] = id] ELSE ins.anchors
             s1 == IF keepMask[headingLine] /\ hasLinks /\ refs # <<>>
                   THEN [ins.seeAlso EXCEPT ![headingLine] = refs] ELSE ins.seeAlso
         IN visitFrom([anchors |-> a1, seeAlso |-> s1], n + 1, nodes, lns, keepMask,
                      linkIndex, currentFile)

buildInsertions(nodes, lns, keepMask, linkIndex, currentFile) ==
    visitFrom([anchors |-> [i \in 0 .. Len(lns) - 1 |-> ""],
               seeAlso |-> [i \in 0 .. Len(lns) - 1 |-> <<>>]],
              1, nodes, lns, keepMask, linkIndex, currentFile)

\* the section whose body holds line i: the last node that starts at or
\* before it and ends at or after it (0: none)
SectionOfLine(nodes, i) ==
    LET holding == {n \in DOMAIN nodes : nodes[n].startLine <= i /\ i <= nodes[n].endLine}
    IN IF holding = {} THEN 0 ELSE CHOOSE n \in holding : \A o \in holding : o <= n

\* whether a body line is kept in the blank output (keep_content)
keepsContent(nodes, i) ==
    LET n == SectionOfLine(nodes, i)
    IN n # 0 /\ nodes[n].metadata.keepContent

\* a template that keeps the marker lines
emitTemplateWithMarkers(i, lns, keepMask, ins, includeAnchors) ==
    LET line == lns[i + 1] IN
    IF ~keepMask[i] THEN <<>>
    ELSE IF FilterHeadingMatch(line)
    THEN (IF ins.anchors[i] # "" /\ includeAnchors
          THEN <<AnchorEntry(i, ins.anchors[i])>> ELSE <<>>)
         \o <<LineEntry(i)>>
    ELSE <<LineEntry(i)>>

emitTemplate(i, lns, keepMask, ins, includeAnchors) ==
    LET line == lns[i + 1] IN
    IF ~keepMask[i] THEN <<>>
    ELSE IF FilterMetadataMatch(line) THEN <<>>
    ELSE IF FilterHeadingMatch(line)
    THEN (IF ins.anchors[i] # "" /\ includeAnchors
          THEN <<AnchorEntry(i, ins.anchors[i])>> ELSE <<>>)
         \o <<LineEntry(i)>>
         \o (IF ins.seeAlso[i] # <<>> THEN <<SeeAlsoEntry(i, ins.seeAlso[i], ins.verb)>>
             ELSE <<>>)
    ELSE <<LineEntry(i)>>

\* a blank output that keeps every line of the template
emitBlankWithBodies(i, lns, keepMask, ins, includeAnchors, nodes) ==
    emitTemplate(i, lns, keepMask, ins, includeAnchors)

emitBlank(i, lns, keepMask, ins, includeAnchors, nodes) ==
    LET line == lns[i + 1] IN
    IF ~keepMask[i] THEN <<>>
    ELSE IF FilterMetadataMatch(line) THEN <<>>
    ELSE IF FilterHeadingMatch(line)
    THEN emitTemplate(i, lns, keepMask, ins, includeAnchors)
    ELSE IF FilterAttributeMatch(line) THEN <<LineEntry(i)>>
    ELSE IF keepsContent(nodes, i) THEN <<LineEntry(i)>>
    ELSE <<>>

RECURSIVE templateLinesFrom(_, _, _, _, _)
templateLinesFrom(i, lns, keepMask, ins, includeAnchors) ==
    IF i >= Len(lns) THEN <<>>
    ELSE emitTemplate(i, lns, keepMask, ins, includeAnchors)
         \o templateLinesFrom(i + 1, lns, keepMask, ins, includeAnchors)

RECURSIVE blankLinesFrom(_, _, _, _, _, _)
blankLinesFrom(i, lns, keepMask, ins, includeAnchors, nodes) ==
    IF i >= Len(lns) THEN <<>>
    ELSE emitBlank(i, lns, keepMask, ins, includeAnchors, nodes)
         \o blankLinesFrom(i + 1, lns, keepMask, ins, includeAnchors, nodes)

\* !entry.trim(): the entry is an empty line
IsEmptyEntry(e, lns) == e.t = "blank" \/ (e.t = "line" /\ ~Trimmed(lns[e.i + 1]))

RECURSIVE removeTrailingEmptyLines(_, _)
removeTrailingEmptyLines(list, lns) ==
    IF list # <<>> /\ IsEmptyEntry(list[Len(list)], lns)
    THEN removeTrailingEmptyLines(SubSeq(list, 1, Len(list) - 1), lns)
    ELSE list

\* a content that never ends with the newline of the text
finalizeContentWithoutNewline(list, hadTrailingNewline) == [ls |-> list, nl |-> FALSE]

finalizeContent(list, hadTrailingNewline) ==
    IF Len(list) = 0 THEN [ls |-> <<>>, nl |-> FALSE]
    ELSE [ls |-> list, nl |-> hadTrailingNewline]

classifyLine(e, lns) ==
    IF e.t = "line" /\ FilterHeadingMatch(lns[e.i + 1]) THEN "heading"
    ELSE IF e.t = "line" /\ FilterAttributeMatch(lns[e.i + 1]) THEN "attribute"
    ELSE IF e.t = "seeAlso" THEN "seeAlso"
    ELSE IF e.t = "anchor" THEN "anchor"
    ELSE "other"

\* an empty line after every line that is not empty
blankAfterEveryLine(list, i, lns) == ~IsEmptyEntry(list[i], lns)

blankAfter(list, i, lns) ==
    LET currentType == classifyLine(list[i], lns)
        nextType == classifyLine(list[i + 1], lns)
    IN IF currentType = "attribute" THEN nextType # "attribute"
       ELSE IF currentType = "heading" THEN nextType = "heading" \/ nextType = "anchor"
       ELSE IF currentType = "seeAlso" THEN TRUE
       ELSE IF currentType = "anchor" THEN FALSE
       ELSE ~IsEmptyEntry(list[i], lns)

RECURSIVE insertBlankLinesFrom(_, _, _)
insertBlankLinesFrom(list, i, lns) ==
    IF i > Len(list) THEN <<>>
    ELSE IF i = Len(list) THEN <<list[i]>>
    ELSE <<list[i]>> \o (IF blankAfter(list, i, lns) THEN <<BlankEntry>> ELSE <<>>)
         \o insertBlankLinesFrom(list, i + 1, lns)

insertBlankLines(list, lns) == insertBlankLinesFrom(list, 1, lns)

\* rawContent.endsWith("\n"): split leaves an empty string after the last newline
hadTrailingNewlineOf(lns) == Len(lns) >= 2 /\ lns[Len(lns)].k = "e"

filterPartContent(lns, options) ==
    LET includeLabels == normalizeLabels(options.includeLabels)
        dropTitles == normalizeDropTitles(options.dropTitles)
        nodes == parseAsciiDocSections(lns)
        dec == buildSectionDecisions(nodes, includeLabels, options.wildcard)
        filteredSections == IF Len(includeLabels) > 0
                            THEN collectMatchedSections(nodes, dec) ELSE DOMAIN nodes
        mask0 == IF Len(includeLabels) > 0
                 THEN keepFirstLevelOneHeading(createKeepMask(Len(lns), nodes, dec), lns)
                 ELSE [i \in 0 .. Len(lns) - 1 |-> TRUE]
        keepMask == applyDropRules(mask0, lns, nodes, dropTitles)
        hadTrailingNewline == hadTrailingNewlineOf(lns)
        found == buildInsertions(nodes, lns, keepMask, options.linkIndex,
                                 options.currentFile)
        ins == [anchors |-> found.anchors, seeAlso |-> found.seeAlso,
                verb |-> localizedVerb(options.manifestLang)]
        templateLines == removeTrailingEmptyLines(
                             templateLinesFrom(0, lns, keepMask, ins, options.includeAnchors),
                             lns)
        blankLines == removeTrailingEmptyLines(
                          blankLinesFrom(0, lns, keepMask, ins, options.includeAnchors, nodes),
                          lns)
    IN [nodes |-> nodes, keepMask |-> keepMask,
        templateContent |-> finalizeContent(templateLines, hadTrailingNewline),
        blankContent |-> finalizeContent(insertBlankLines(blankLines, lns), hadTrailingNewline),
        keptSections |-> countSections(filteredSections)]

(***************************************************************************)
(* The orchestration. A part is [name, file, content, sections]: content   *)
(* is the lines of its text and sections the forest the loader parsed from *)
(* it. The manifest is [language, parts, labels]: the files in their       *)
(* order and the label definitions [name, available_values]. The message   *)
(* of an error is [prefix, labels]: the prefix and the labels that         *)
(* join(', ') lists after it.                                              *)
(***************************************************************************)
Part(name, file, content) ==
    [name |-> name, file |-> file, content |-> content,
     sections |-> parseAsciiDocSections(content)]

\* the labels of the sections of the parts, in the order visit meets them
RECURSIVE LabelsOfNodes(_)
LabelsOfNodes(nodes) ==
    IF nodes = <<>> THEN <<>>
    ELSE Head(nodes).metadata.labels \o LabelsOfNodes(Tail(nodes))

RECURSIVE LabelsOfParts(_)
LabelsOfParts(parts) ==
    IF parts = <<>> THEN <<>>
    ELSE LabelsOfNodes(Head(parts).sections) \o LabelsOfParts(Tail(parts))

RECURSIVE visitLabels(_, _, _)
visitLabels(acc, labels, manifestMultiNames) ==
    IF labels = <<>> THEN acc
    ELSE LET trimmed == trim(Head(labels))
             base == trimmed.s[1]
             step ==
                 IF ~NonEmptyLabel(trimmed) THEN acc
                 ELSE IF Len(trimmed.s) >= 2
                 THEN [known |-> acc.known \cup {trimmed},
                       discovered |-> IF base # "" THEN acc.discovered \cup {base}
                                      ELSE acc.discovered]
                 ELSE IF base \in manifestMultiNames \/ base \in acc.discovered THEN acc
                 ELSE [acc EXCEPT !.known = @ \cup {trimmed}]
         IN visitLabels(step, Tail(labels), manifestMultiNames)

buildKnownLabelSet(parts, defs) ==
    LET manifestMultiNames == {defs[i].name : i \in {j \in DOMAIN defs : defs[j].name # ""}}
        visited == visitLabels([known |-> {}, discovered |-> {}], LabelsOfParts(parts),
                               manifestMultiNames)
        declared(i) == {Label(<<defs[i].name, v>>) :
                           v \in {w \in SeqToSet(defs[i].available_values) : w # ""}}
    IN visited.known \cup UNION {declared(i) : i \in {j \in DOMAIN defs : defs[j].name # ""}}

\* index[id] = {title, file} of the last section that carries the id
RECURSIVE indexNodes(_, _, _)
indexNodes(index, nodes, file) ==
    IF nodes = <<>> THEN index
    ELSE LET id == Head(nodes).metadata.id
             entry == [title |-> Head(nodes).title, file |-> file]
             added == IF id = "" THEN index
                      ELSE [i \in DOMAIN index \cup {id} |->
                               IF i = id THEN entry ELSE index[i]]
         IN indexNodes(added, Tail(nodes), file)

RECURSIVE indexParts(_, _)
indexParts(index, parts) ==
    IF parts = <<>> THEN index
    ELSE indexParts(indexNodes(index, Head(parts).sections, Head(parts).file), Tail(parts))

buildLinkIndex(parts) == indexParts(NoLinkIndex, parts)

\* the first label of the selection that the known set lacks
firstUnknownLabel(labelsToInclude, knownLabels) ==
    LET at == {i \in DOMAIN labelsToInclude : labelsToInclude[i] \notin knownLabels}
    IN IF at = {} THEN <<>>
       ELSE <<labelsToInclude[CHOOSE i \in at : \A j \in at : i <= j]>>

\* labelsToInclude.filter(label => !knownLabels.has(label))
unknownLabels(labelsToInclude, knownLabels) ==
    FilterSeq(labelsToInclude,
              {i \in DOMAIN labelsToInclude : labelsToInclude[i] \notin knownLabels})

\* the place of a file in the manifest; a later entry of the same file
\* replaces an earlier one in the Map, and a file that is not listed gets a
\* place after every listed one (Number.MAX_SAFE_INTEGER in the source)
orderOf(file, manifestParts) ==
    LET at == {i \in DOMAIN manifestParts : manifestParts[i] = file}
    IN IF at = {} THEN Len(manifestParts)
       ELSE (CHOOSE i \in at : \A j \in at : j <= i) - 1

\* [...parts].sort by the place in the manifest; the sort is stable
RECURSIVE sortParts(_, _, _)
sortParts(parts, left, manifestParts) ==
    IF left = {} THEN <<>>
    ELSE LET first == CHOOSE i \in left : \A j \in left :
                          \/ orderOf(parts[i].file, manifestParts)
                                < orderOf(parts[j].file, manifestParts)
                          \/ /\ orderOf(parts[i].file, manifestParts)
                                = orderOf(parts[j].file, manifestParts)
                             /\ i <= j
         IN <<parts[first]>> \o sortParts(parts, left \ {first}, manifestParts)

\* the parts in the order of the fetch result
orderedPartsAsFetched(parts, manifestParts) == parts

orderedPartsOf(parts, manifestParts) == sortParts(parts, DOMAIN parts, manifestParts)

\* content.trim().length > 0: a content keeps no empty line at its end
hasContent(content) == content.ls # <<>>

(***************************************************************************)
(* The state machine. A document is typed line by line (AddLine) and then  *)
(* filtered once (Filter) under options drawn from a set; res is what      *)
(* filterPartContent returned.                                             *)
(***************************************************************************)
La == Label(<<"a">>)

Lb == Label(<<"b">>)

T1 == Str("t1", FALSE, FALSE)

T2 == Str("t2", FALSE, FALSE)

MetaLabels(labels) == M(Json(TRUE, "", labels, <<>>, FALSE), "slash")

Options(includeLabels, dropTitles) ==
    [includeLabels |-> includeLabels, dropTitles |-> dropTitles, wildcard |-> FALSE,
     includeAnchors |-> TRUE, linkIndex |-> NoLinkIndex, currentFile |-> "",
     manifestLang |-> "en"]

NoOptions == Options(<<>>, {})

NoResult ==
    [nodes |-> <<>>, keepMask |-> <<>>,
     templateContent |-> [ls |-> <<>>, nl |-> FALSE],
     blankContent |-> [ls |-> <<>>, nl |-> FALSE],
     keptSections |-> 0]

NoMatcher == [labels |-> <<>>, candidates |-> {}, wildcard |-> FALSE, matches |-> FALSE]

NoError == [thrown |-> FALSE, prefix |-> "", labels |-> <<>>]

\* a manifest that declares no language
NoLanguage == "undefined"

NoManifest == [language |-> "en", parts |-> <<>>, labels |-> <<>>]

NoBuild ==
    [parts |-> <<>>, manifest |-> NoManifest, labelsToInclude |-> <<>>,
     knownSet |-> [given |-> FALSE, set |-> {}], dropByPart |-> [f \in {} |-> {}],
     knownLabels |-> {}, orderedParts |-> <<>>, next |-> 1, calls |-> 0,
     filteredParts |-> <<>>, error |-> NoError,
     dropRules |-> <<>>, selectableLabels |-> {}, effectiveLabels |-> <<>>]

\* opts?.concurrency when the caller gives none
NoConcurrency == [given |-> FALSE, value |-> 0]

\* replies and takers are the history of the call: what the fetch of each
\* part did, and the workers that took the part, in the order they did
NoFetch ==
    [toFetch |-> <<>>, requested |-> NoConcurrency, concurrency |-> 1, index |-> 0,
     workers |-> <<>>, results |-> <<>>, outcome |-> "none", failures |-> <<>>,
     dups |-> {}, parts |-> <<>>, replies |-> <<>>, takers |-> <<>>]

InitDoc(alphabet) ==
    /\ lines \in {<<l>> : l \in alphabet}
    /\ opts = NoOptions
    /\ res = NoResult
    /\ matcher = NoMatcher
    /\ build = NoBuild
    /\ fetch = NoFetch
    /\ pc = "edit"

AddLine(alphabet) ==
    /\ pc = "edit"
    /\ Len(lines) < MaxLines
    /\ \E l \in alphabet : lines' = Append(lines, l)
    /\ UNCHANGED <<opts, res, matcher, build, pc, fetch>>

Filter(optionSet) ==
    /\ pc = "edit"
    /\ \E o \in optionSet :
          /\ opts' = o
          /\ res' = filterPartContent(lines, o)
    /\ pc' = "done"
    /\ UNCHANGED <<lines, matcher, build, fetch>>

\* label filtering: sections labeled [a] and [a, b] under the selections
\* [a], [a, b] and [b]
LabelAlphabet ==
    {H(1, T1), H(2, T1), H(3, T1), MetaLabels(<<La>>), MetaLabels(<<La, Lb>>), Body}

LabelOptions == {Options(<<La>>, {}), Options(<<La, Lb>>, {}), Options(<<Lb>>, {})}

Init == InitDoc(LabelAlphabet)

TypeLine == AddLine(LabelAlphabet)

FilterByLabels == Filter(LabelOptions)

Next == TypeLine \/ FilterByLabels

Spec == Init /\ [][Next]_vars

(***************************************************************************)
(* What the properties speak of.                                           *)
(***************************************************************************)
Done == pc = "done"

Selection == SeqToSet(opts.includeLabels)

\* the input lines present in a content
LinesIn(content) ==
    {content.ls[j].i : j \in {x \in DOMAIN content.ls : content.ls[x].t = "line"}}

InTemplate(i) == i \in LinesIn(res.templateContent)

InBlank(i) == i \in LinesIn(res.blankContent)

\* the line of a section's heading: the first heading at or after its start
HeadingLine(n) ==
    CHOOSE i \in res.nodes[n].startLine .. Len(lines) - 1 :
        /\ lines[i + 1].k = "h"
        /\ \A j \in res.nodes[n].startLine .. i - 1 : lines[j + 1].k # "h"

Range(n) == res.nodes[n].startLine .. res.nodes[n].endLine

LabelsOf(n) == res.nodes[n].metadata.labels

Labeled(n) == LabelsOf(n) # <<>>

\* every label of the section is selected
AllSelected(n) == \A k \in DOMAIN LabelsOf(n) : LabelsOf(n)[k] \in Selection

AncestorsKept(n) ==
    \A a \in Ancestors(res.nodes, n) : Labeled(a) => AllSelected(a)

IsFirstLevelOneHeading(i) ==
    /\ lines[i + 1].k = "h" /\ lines[i + 1].level = 1
    /\ \A j \in 0 .. i - 1 : ~(lines[j + 1].k = "h" /\ lines[j + 1].level = 1)

\* the first line that begins with one "#" followed by white space
IsFirstHashLine(i) ==
    LET hash(j) == \/ lines[j + 1].k = "h" /\ lines[j + 1].level = 1
                   \/ lines[j + 1].k = "x"
    IN hash(i) /\ \A j \in 0 .. i - 1 : ~hash(j)

\* the lines of a section outside its subsections that are neither marker
\* nor empty lines
OwnLines(n) ==
    {i \in Range(n) : /\ SectionOfLine(res.nodes, i) = n
                      /\ lines[i + 1].k \notin {"m", "e"}}

HasLevelOneHeading == \E i \in 0 .. Len(lines) - 1 : IsFirstLevelOneHeading(i)

\* the section's title is a drop title, but for case and surrounding space
TitleDropped(n) ==
    \E d \in opts.dropTitles :
        d.base # "" /\ d.base = res.nodes[n].title.base

Dropped(n) == res.nodes[n].level >= 2 /\ TitleDropped(n)

\* the line lies in a section that a drop rule removes
UnderDropped(i) ==
    \E d \in DOMAIN res.nodes : Dropped(d) /\ i \in Range(d)

(***************************************************************************)
(* Drop rules: sections titled t1 (written T1) and t2 under the drop       *)
(* titles " T1 " and t2, with and without a label selection.               *)
(***************************************************************************)
T1Upper == Str("t1", TRUE, FALSE)

T1UpperPadded == Str("t1", TRUE, TRUE)

DropAlphabet ==
    {H(1, T1), H(2, T1Upper), H(2, T2), H(3, T2), MetaLabels(<<La>>), Body}

DropOptions ==
    {Options(<<>>, {T1UpperPadded}), Options(<<La>>, {T2}),
     Options(<<Lb>>, {T1UpperPadded, T2})}

InitDrop == InitDoc(DropAlphabet)

TypeDropLine == AddLine(DropAlphabet)

FilterWithDrops == Filter(DropOptions)

NextDrop == TypeDropLine \/ FilterWithDrops

SpecDrop == InitDrop /\ [][NextDrop]_vars

(***************************************************************************)
(* Lines that begin with "#": headings, and a "#" with nothing after it,   *)
(* under a selection, a drop title, or both.                               *)
(***************************************************************************)
HashAlphabet == {H(1, T1), H(2, T1), MetaLabels(<<La>>), BareHash, Body}

HashOptions == {Options(<<Lb>>, {}), Options(<<>>, {T1}), Options(<<La>>, {T1})}

InitHash == InitDoc(HashAlphabet)

TypeHashLine == AddLine(HashAlphabet)

FilterHashLines == Filter(HashOptions)

NextHash == TypeHashLine \/ FilterHashLines

SpecHash == InitHash /\ [][NextHash]_vars

C2_AsStated ==
    (Done /\ Selection # {} /\ opts.dropTitles = {}) =>
        \A n \in DOMAIN res.nodes :
            ~Labeled(n) => InTemplate(HeadingLine(n)) /\ InBlank(HeadingLine(n))

\* C2: under a non-empty selection and no drop rule, a section without
\* labels none of whose ancestors is a labeled section missing a selected
\* label keeps its heading in both outputs and its own lines in the
\* template.
C2_UnlabeledKept ==
    (Done /\ Selection # {} /\ opts.dropTitles = {}) =>
        \A n \in DOMAIN res.nodes :
            (~Labeled(n) /\ AncestorsKept(n)) =>
                /\ InTemplate(HeadingLine(n)) /\ InBlank(HeadingLine(n))
                /\ \A i \in OwnLines(n) : InTemplate(i)

\* an unlabeled subsection with a body is kept under a labeled parent that
\* matches the selection
C2_Witness ==
    /\ Done /\ Selection # {} /\ opts.dropTitles = {}
    /\ \E n \in DOMAIN res.nodes :
        /\ ~Labeled(n) /\ res.nodes[n].level >= 2
        /\ \E a \in Ancestors(res.nodes, n) : Labeled(a)
        /\ AncestorsKept(n)
        /\ \E i \in OwnLines(n) : lines[i + 1].k = "b" /\ InTemplate(i)
        /\ InBlank(HeadingLine(n))

\* C3: under a non-empty selection, no line of the range of a labeled
\* section missing a selected label is in either output, the first level-1
\* heading of the document excepted.
C3_SubtreeRemoved ==
    (Done /\ Selection # {}) =>
        \A n \in DOMAIN res.nodes :
            (Labeled(n) /\ ~AllSelected(n)) =>
                \A i \in Range(n) :
                    ~IsFirstLevelOneHeading(i) => ~InTemplate(i) /\ ~InBlank(i)

\* C4: whatever the selection and the drop rules, the first level-1 heading
\* of a document that has one is in both outputs.
C4_FirstHeadingKept ==
    (Done /\ HasLevelOneHeading) =>
        \A i \in 0 .. Len(lines) - 1 :
            IsFirstLevelOneHeading(i) => InTemplate(i) /\ InBlank(i)

(***************************************************************************)
(* Drop rules.                                                             *)
(***************************************************************************)
\* C7: whatever the selection, no line of the range of a section of level 2
\* or deeper whose title is a drop title, but for case and surrounding
\* space, is in either output.
C7_DroppedSectionRemoved ==
    Done =>
        \A n \in DOMAIN res.nodes :
            Dropped(n) => \A i \in Range(n) : ~InTemplate(i) /\ ~InBlank(i)

\* C8: a level-1 section whose title is a drop title loses no line to the
\* drop rules but those of its dropped subsections: each other line of its
\* range is in an output exactly when it is without the drop rules, and
\* under the empty selection its heading is in both outputs and its own
\* lines are in the template.
C8_LevelOneNeverDropped ==
    (Done /\ \E n \in DOMAIN res.nodes : res.nodes[n].level = 1 /\ TitleDropped(n)) =>
        LET withoutDrops == filterPartContent(lines, [opts EXCEPT !.dropTitles = {}])
            template0 == LinesIn(withoutDrops.templateContent)
            blank0 == LinesIn(withoutDrops.blankContent)
        IN \A n \in DOMAIN res.nodes :
            (res.nodes[n].level = 1 /\ TitleDropped(n)) =>
                /\ \A i \in Range(n) :
                      ~UnderDropped(i) =>
                          /\ InTemplate(i) <=> i \in template0
                          /\ InBlank(i) <=> i \in blank0
                /\ Selection = {} =>
                      /\ InTemplate(HeadingLine(n)) /\ InBlank(HeadingLine(n))
                      /\ \A i \in OwnLines(n) : InTemplate(i)

\* a level-1 section titled t1 keeps its heading and its body under the
\* drop title " T1 " while its subsection titled T1 is removed
C8_Witness ==
    /\ Done /\ opts.dropTitles = {T1UpperPadded}
    /\ \E n, c \in DOMAIN res.nodes :
        /\ res.nodes[n].level = 1 /\ TitleDropped(n)
        /\ InTemplate(HeadingLine(n)) /\ InBlank(HeadingLine(n))
        /\ \E i \in OwnLines(n) : lines[i + 1].k = "b" /\ InTemplate(i)
        /\ n \in Ancestors(res.nodes, c) /\ Dropped(c)
        /\ ~InTemplate(HeadingLine(c))

(***************************************************************************)
(* The full template: the empty selection over documents with both forms   *)
(* of marker, section ids and empty lines.                                 *)
(***************************************************************************)
MetaId == M(Json(TRUE, "s1", <<>>, <<>>, FALSE), "slash")

MetaHtml == M(Json(TRUE, "s2", <<>>, <<>>, FALSE), "html")

FullAlphabet == {H(1, T1), H(2, T1), MetaId, MetaHtml, Body, Empty}

FullOptions == {NoOptions, Options(<<Lb>>, {})}

InitFull == InitDoc(FullAlphabet)

TypeFullLine == AddLine(FullAlphabet)

FilterNothing == Filter(FullOptions)

NextFull == TypeFullLine \/ FilterNothing

SpecFull == InitFull /\ [][NextFull]_vars

\* the text of an anchor line
AnchorText(id) == [k |-> "anchor", id |-> id]

\* the lines of a content as split("\n") yields them; a line of the input
\* is its record
TextOf(content) ==
    LET text(e) == IF e.t = "line" THEN lines[e.i + 1]
                   ELSE IF e.t = "anchor" THEN AnchorText(e.id)
                   ELSE e
        ls == [j \in DOMAIN content.ls |-> text(content.ls[j])]
    IN IF ls = <<>> THEN <<Empty>>
       ELSE IF content.nl THEN Append(ls, Empty) ELSE ls

\* a text without its lines out of drop; removing every line leaves the
\* empty text
Without(drop) ==
    LET rest == FilterSeq(lines, {i \in DOMAIN lines : i \notin drop})
    IN IF rest = <<>> THEN <<Empty>> ELSE rest

Anchored(i, n) ==
    /\ HeadingLine(n) = i
    /\ res.nodes[n].metadata.id # ""
    /\ \A j \in res.nodes[n].startLine .. i - 1 :
          lines[j + 1].k = "e" \/ (lines[j + 1].k = "m" /\ lines[j + 1].form = "slash")

RECURSIVE ExpectedFrom(_)
ExpectedFrom(i) ==
    IF i >= Len(lines) THEN <<>>
    ELSE LET line == lines[i + 1]
             here == IF line.k = "m" /\ line.form = "slash" THEN <<>>
                     ELSE IF \E n \in DOMAIN res.nodes : Anchored(i, n)
                     THEN LET n == CHOOSE n \in DOMAIN res.nodes : Anchored(i, n)
                          IN <<AnchorText(res.nodes[n].metadata.id), line>>
                     ELSE <<line>>
         IN here \o ExpectedFrom(i + 1)

RECURSIVE StripEmptyEnd(_)
StripEmptyEnd(ls) ==
    IF ls # <<>> /\ ls[Len(ls)] = Empty THEN StripEmptyEnd(SubSeq(ls, 1, Len(ls) - 1))
    ELSE ls

Star(ns) == Label(<<ns, "*">>)

LabelPool ==
    {Label(<<"n", "a">>), PaddedLabel(<<"n", "b">>), Star("n"), Star("m"),
     Label(<<"n", "">>), Label(<<"p">>)}

CandidatePool ==
    {Star("n"), Label(<<"n", "a">>), Label(<<"m", "b">>), Label(<<"m", "">>), Label(<<"p">>)}

InitMatcher ==
    /\ lines = <<>>
    /\ opts = NoOptions
    /\ res = NoResult
    /\ matcher = NoMatcher
    /\ build = NoBuild
    /\ fetch = NoFetch
    /\ pc = "labels"

AddLabel ==
    /\ pc = "labels"
    /\ Len(matcher.labels) < MaxLabels
    /\ \E l \in LabelPool : matcher' = [matcher EXCEPT !.labels = Append(@, l)]
    /\ UNCHANGED <<lines, opts, res, build, pc, fetch>>

AddCandidate ==
    /\ pc = "labels"
    /\ Cardinality(matcher.candidates) < MaxCandidates
    /\ \E c \in CandidatePool \ matcher.candidates :
          matcher' = [matcher EXCEPT !.candidates = @ \cup {c}]
    /\ UNCHANGED <<lines, opts, res, build, pc, fetch>>

Match ==
    /\ pc = "labels"
    /\ \E w \in BOOLEAN :
          matcher' = [matcher EXCEPT !.wildcard = w,
                          !.matches = matchesAllLabels(matcher.labels, matcher.candidates, w)]
    /\ pc' = "matched"
    /\ UNCHANGED <<lines, opts, res, build, fetch>>

NextMatcher == AddLabel \/ AddCandidate \/ Match

SpecMatcher == InitMatcher /\ [][NextMatcher]_vars

\* the label reads ns::value with a namespace and a value
Namespaced(l) == Len(l.s) = 2 /\ l.s[1] # "" /\ l.s[2] # ""

\* the selection holds the wildcard of the label's namespace
SelectedByWildcard(l) == Namespaced(l) /\ Star(l.s[1]) \in matcher.candidates

\* the label is the wildcard of a namespace of which the selection holds a value
WildcardOfSelected(l) ==
    /\ Namespaced(l) /\ l.s[2] = "*"
    /\ \E c \in matcher.candidates : Namespaced(c) /\ c.s[1] = l.s[1] /\ c.s[2] # "*"

Lx == Label(<<"x">>)

Ly == Label(<<"y">>)

Lna == Label(<<"n", "a">>)

\* a marker with an id and a link_to list that names it, a section of
\* another part and an id that no section carries
PartLinks == M(Json(TRUE, "s1", <<>>, <<"s1", "s2", "s9">>, FALSE), "slash")

\* a marker with an id and a label
MetaIdLabeled == M(Json(TRUE, "s2", <<La>>, <<>>, FALSE), "slash")

PartPool ==
    {Part("p1", "p1.adoc", <<H(1, T1), MetaIdLabeled, H(2, T2), Body>>),
     Part("p2", "p2.adoc", <<PartLinks, H(1, T2), Body>>),
     Part("p3", "p3.adoc", <<Empty>>)}

SelectionPool == {La, Lx, Ly, Lna}

KnownSetPool == {{La}, {La, Lx}}

ManifestPool ==
    {[language |-> "en", parts |-> <<"p2.adoc", "p1.adoc">>,
      labels |-> <<[name |-> "n", available_values |-> <<"a">>]>>],
     [language |-> "fr", parts |-> <<"p1.adoc">>, labels |-> <<>>],
     [language |-> NoLanguage, parts |-> <<"p2.adoc">>, labels |-> <<>>],
     [language |-> "de", parts |-> <<>>, labels |-> <<>>]}

DropByPartPool == {[f \in {} |-> {}], [f \in {"p1.adoc"} |-> {T2}]}

InitBuild ==
    /\ lines = <<>>
    /\ opts = NoOptions
    /\ res = NoResult
    /\ matcher = NoMatcher
    /\ build = NoBuild
    /\ fetch = NoFetch
    /\ pc = "args"

AddPart ==
    /\ pc = "args"
    /\ Len(build.parts) < MaxParts
    /\ \E part \in PartPool : build' = [build EXCEPT !.parts = Append(@, part)]
    /\ UNCHANGED <<lines, opts, res, matcher, pc, fetch>>

SelectLabel ==
    /\ pc = "args"
    /\ Len(build.labelsToInclude) < MaxSelected
    /\ \E l \in SelectionPool : build' = [build EXCEPT !.labelsToInclude = Append(@, l)]
    /\ UNCHANGED <<lines, opts, res, matcher, pc, fetch>>

GiveKnownSet ==
    /\ pc = "args"
    /\ ~build.knownSet.given
    /\ \E k \in KnownSetPool : build' = [build EXCEPT !.knownSet = [given |-> TRUE, set |-> k]]
    /\ UNCHANGED <<lines, opts, res, matcher, pc, fetch>>

\* the call: knownLabels = knownSet ?? buildKnownLabelSet(result)
Call ==
    /\ pc = "args"
    /\ \E m \in ManifestPool, d \in DropByPartPool :
          build' = [build EXCEPT
                       !.manifest = m,
                       !.dropByPart = d,
                       !.knownLabels = IF build.knownSet.given THEN build.knownSet.set
                                       ELSE buildKnownLabelSet(build.parts, m.labels)]
    /\ pc' = "validate"
    /\ UNCHANGED <<lines, opts, res, matcher, fetch>>

\* the check of the selection, and the sort that follows it
Validate ==
    /\ pc = "validate"
    /\ LET unknown == unknownLabels(build.labelsToInclude, build.knownLabels)
       IN IF Len(build.labelsToInclude) > 0 /\ Len(unknown) > 0
          THEN /\ build' = [build EXCEPT !.error = [thrown |-> TRUE,
                                                     prefix |-> "Unknown label(s): ",
                                                     labels |-> unknown]]
               /\ pc' = "thrown"
          ELSE /\ build' = [build EXCEPT
                               !.orderedParts = orderedPartsOf(build.parts, build.manifest.parts)]
               /\ pc' = "loop"
    /\ UNCHANGED <<lines, opts, res, matcher, fetch>>

\* one turn of the loop over orderedParts
FilterNextPart ==
    /\ pc = "loop"
    /\ build.next <= Len(build.orderedParts)
    /\ LET part == build.orderedParts[build.next]
           o == [includeLabels |-> build.labelsToInclude,
                 dropTitles |-> IF part.file \in DOMAIN build.dropByPart
                                THEN build.dropByPart[part.file] ELSE {},
                 wildcard |-> FALSE,
                 includeAnchors |-> TRUE,
                 linkIndex |-> buildLinkIndex(build.parts),
                 currentFile |-> part.file,
                 manifestLang |-> IF build.manifest.language = NoLanguage
                                  THEN "en" ELSE build.manifest.language]
           filtered == filterPartContent(part.content, o)
       IN IF part.content = <<Empty>>
          THEN /\ build' = [build EXCEPT !.next = @ + 1]
               /\ UNCHANGED <<lines, opts, res>>
          ELSE /\ lines' = part.content
               /\ opts' = o
               /\ res' = filtered
               /\ build' = [build EXCEPT
                      !.next = @ + 1,
                      !.calls = @ + 1,
                      !.filteredParts =
                          IF ~hasContent(filtered.templateContent)
                             /\ ~hasContent(filtered.blankContent)
                          THEN @
                          ELSE Append(@, [name |-> part.name, file |-> part.file,
                                          templateContent |-> filtered.templateContent,
                                          blankContent |-> filtered.blankContent])]
    /\ UNCHANGED <<matcher, pc, fetch>>

Return ==
    /\ pc = "loop"
    /\ build.next > Len(build.orderedParts)
    /\ pc' = "returned"
    /\ UNCHANGED <<lines, opts, res, matcher, build, fetch>>

NextBuild == AddPart \/ SelectLabel \/ GiveKnownSet \/ Call \/ Validate \/ FilterNextPart \/ Return

SpecBuild == InitBuild /\ [][NextBuild]_vars

Called == pc \in {"validate", "loop", "thrown", "returned"}

\* the labels of the selection that the known set lacks, in their order
Unknown ==
    FilterSeq(build.labelsToInclude,
              {i \in DOMAIN build.labelsToInclude :
                  build.labelsToInclude[i] \notin
                      (IF build.knownSet.given THEN build.knownSet.set
                       ELSE buildKnownLabelSet(build.parts, build.manifest.labels))})

\* C9: a call whose selection holds a label that the known set lacks never
\* enters the loop over the parts and never returns: it filters no part, it
\* has no filtered part, and the error it throws reads "Unknown label(s): "
\* followed by every unknown label of the selection.
C9_UnknownLabelsThrow ==
    (Called /\ Unknown # <<>>) =>
        /\ pc \in {"validate", "thrown"}
        /\ build.calls = 0
        /\ build.filteredParts = <<>>
        /\ pc = "thrown" =>
              /\ build.error.thrown
              /\ build.error.prefix = "Unknown label(s): "
              /\ build.error.labels = Unknown

\* a call over two parts with the selection x, y and the known set {a, x}
\* has thrown for y alone
C9_Witness ==
    /\ pc = "thrown"
    /\ Len(build.parts) = 2
    /\ build.labelsToInclude = <<Lx, Ly>>
    /\ build.knownSet = [given |-> TRUE, set |-> {La, Lx}]
    /\ build.error.labels = <<Ly>>
    /\ build.calls = 0

(***************************************************************************)
(* keep_content: sections with and without the flag, labeled or not, under *)
(* the empty selection and under a selection that matches none of them.    *)
(***************************************************************************)
MetaKeep == M(Json(TRUE, "", <<>>, <<>>, TRUE), "slash")

MetaKeepLabeled == M(Json(TRUE, "", <<La>>, <<>>, TRUE), "slash")

KeepAlphabet == {H(1, T1), H(2, T1), MetaKeep, MetaKeepLabeled, Body, Empty}

KeepOptions == {NoOptions, Options(<<Lb>>, {})}

InitKeep == InitDoc(KeepAlphabet)

TypeKeepLine == AddLine(KeepAlphabet)

FilterKeep == Filter(KeepOptions)

NextKeep == TypeKeepLine \/ FilterKeep

SpecKeep == InitKeep /\ [][NextKeep]_vars

\* the section that holds line i has keep_content: true
InKeepContent(i) ==
    LET n == SectionOfLine(res.nodes, i)
    IN n # 0 /\ res.nodes[n].metadata.keepContent

\* the place of line i in the blank output (0: nowhere)
PlaceInBlank(i) ==
    LET at == {j \in DOMAIN res.blankContent.ls :
                  res.blankContent.ls[j].t = "line" /\ res.blankContent.ls[j].i = i}
    IN IF at = {} THEN 0 ELSE CHOOSE j \in at : TRUE

C11_NoMarkerLines ==
    Done =>
        \A i \in 0 .. Len(lines) - 1 :
            lines[i + 1].k = "m" => ~InTemplate(i) /\ ~InBlank(i)

\* the same for the "//" form alone
C11_SlashMarkersOnly ==
    Done =>
        \A i \in 0 .. Len(lines) - 1 :
            (lines[i + 1].k = "m" /\ lines[i + 1].form = "slash") =>
                ~InTemplate(i) /\ ~InBlank(i)

(***************************************************************************)
(* Anchors and See also paragraphs: sections that carry an id and a        *)
(* link_to list, under "//" and "<!-- -->" markers, filtered with a link   *)
(* index that resolves s1 in p1.adoc and s2 in p2.adoc, and nothing else.  *)
(***************************************************************************)
MetaLinks == M(Json(TRUE, "s1", <<>>, <<"s2", "s9", "s1">>, FALSE), "slash")

MetaHtmlLinks == M(Json(TRUE, "s2", <<>>, <<"s1">>, FALSE), "html")

MetaDangling == M(Json(TRUE, "", <<La>>, <<"s9">>, FALSE), "slash")

LinkIndex ==
    [id \in {"s1", "s2"} |->
        IF id = "s1" THEN [title |-> T1, file |-> "p1.adoc"]
        ELSE [title |-> T2, file |-> "p2.adoc"]]

LinkOptions(includeLabels, includeAnchors, linkIndex, currentFile, manifestLang) ==
    [NoOptions EXCEPT !.includeLabels = includeLabels,
                      !.includeAnchors = includeAnchors,
                      !.linkIndex = linkIndex,
                      !.currentFile = currentFile,
                      !.manifestLang = manifestLang]

LinksAlphabet ==
    {H(1, T1), H(2, T1), MetaLinks, MetaHtmlLinks, MetaDangling, Attr, Body}

LinksOptions ==
    {LinkOptions(<<>>, TRUE, LinkIndex, "p1.adoc", "en"),
     LinkOptions(<<>>, FALSE, LinkIndex, "p2.adoc", "fr"),
     LinkOptions(<<La>>, TRUE, LinkIndex, "p1.adoc", "fr"),
     LinkOptions(<<Lb>>, TRUE, LinkIndex, "p2.adoc", "de"),
     LinkOptions(<<>>, TRUE, NoLinkIndex, "p1.adoc", NoLanguage)}

InitLinks == InitDoc(LinksAlphabet)

TypeLinksLine == AddLine(LinksAlphabet)

FilterLinks == Filter(LinksOptions)

NextLinks == TypeLinksLine \/ FilterLinks

SpecLinks == InitLinks /\ [][NextLinks]_vars

\* the cross-references the claim expects of a link_to list: one for each
\* id that the index resolves, in the order of the list
RECURSIVE ExpectedRefs(_)
ExpectedRefs(links) ==
    IF links = <<>> THEN <<>>
    ELSE IF Head(links) \notin DOMAIN opts.linkIndex THEN ExpectedRefs(Tail(links))
    ELSE LET target == opts.linkIndex[Head(links)]
         IN <<[kind |-> IF target.file = opts.currentFile THEN "local" ELSE "xref",
               file |-> IF target.file = opts.currentFile THEN "" ELSE target.file,
               id |-> Head(links), title |-> target.title]>>
            \o ExpectedRefs(Tail(links))

\* the See also paragraphs of a content that stand directly after line h
SeeAlsoAfter(content, h) ==
    {content.ls[j].refs : j \in {x \in DOMAIN content.ls :
        /\ x > 1
        /\ content.ls[x].t = "seeAlso"
        /\ content.ls[x - 1] = LineEntry(h)}}

\* the See also paragraphs of a content, each with the heading it follows
SeeAlsoOf(content) ==
    {<<content.ls[j].i, content.ls[j].refs>> :
        j \in {x \in DOMAIN content.ls : content.ls[x].t = "seeAlso"}}

\* the sections whose marker, if any, is written in the "//" form
SlashMarked(n) ==
    \A j \in res.nodes[n].startLine .. HeadingLine(n) - 1 :
        lines[j + 1].k = "m" => lines[j + 1].form = "slash"

\* C12: the heading of a kept section is followed, in both outputs, by a
\* See also paragraph that lists the ids of its link_to that the index
\* resolves, as <<id,title>> for a target in the current file and as
\* xref:file#id[title] for a target in another file; there is no paragraph
\* when no id resolves, and no paragraph elsewhere.
C12_SeeAlsoRefs ==
    Done =>
        /\ \A n \in DOMAIN res.nodes :
              InTemplate(HeadingLine(n)) =>
                  LET expected == ExpectedRefs(res.nodes[n].metadata.linkTo)
                      paragraphs == IF expected = <<>> THEN {} ELSE {expected}
                  IN /\ SeeAlsoAfter(res.templateContent, HeadingLine(n)) = paragraphs
                     /\ SeeAlsoAfter(res.blankContent, HeadingLine(n)) = paragraphs
        /\ \A p \in SeeAlsoOf(res.templateContent) \cup SeeAlsoOf(res.blankContent) :
              \E n \in DOMAIN res.nodes :
                  /\ HeadingLine(n) = p[1]
                  /\ p[2] = ExpectedRefs(res.nodes[n].metadata.linkTo)

\* the same for the sections whose marker is written in the "//" form
C12_SlashSections ==
    Done =>
        /\ \A n \in DOMAIN res.nodes :
              (InTemplate(HeadingLine(n)) /\ SlashMarked(n)) =>
                  LET expected == ExpectedRefs(res.nodes[n].metadata.linkTo)
                      paragraphs == IF expected = <<>> THEN {} ELSE {expected}
                  IN /\ SeeAlsoAfter(res.templateContent, HeadingLine(n)) = paragraphs
                     /\ SeeAlsoAfter(res.blankContent, HeadingLine(n)) = paragraphs
        /\ \A p \in SeeAlsoOf(res.templateContent) \cup SeeAlsoOf(res.blankContent) :
              \E n \in DOMAIN res.nodes :
                  /\ HeadingLine(n) = p[1]
                  /\ p[2] = ExpectedRefs(res.nodes[n].metadata.linkTo)

(***************************************************************************)
(* The language of the See also paragraph.                                 *)
(***************************************************************************)
\* every See also paragraph of a content
Paragraphs(content) ==
    {content.ls[j] : j \in {x \in DOMAIN content.ls : content.ls[x].t = "seeAlso"}}

C13_FallbackWitness ==
    /\ pc = "returned" /\ build.manifest.language \in {NoLanguage, "de"}
    /\ Paragraphs(res.templateContent) # {}

(***************************************************************************)
(* Anchor lines.                                                           *)
(***************************************************************************)
\* the anchor [#id] stands directly before line h in a content
AnchorBefore(content, h, id) ==
    \E j \in DOMAIN content.ls :
        /\ j > 1
        /\ content.ls[j] = LineEntry(h)
        /\ content.ls[j - 1] = AnchorEntry(h, id)

AnchorsOf(content) ==
    {j \in DOMAIN content.ls : content.ls[j].t = "anchor"}

\* C14: with includeAnchors, the kept heading of every section that has an
\* id has the anchor [#id] directly before it in both outputs; without
\* includeAnchors neither output has an anchor line, and the See also
\* paragraphs are those of the same call with includeAnchors.
C14_Anchors ==
    Done =>
        /\ opts.includeAnchors =>
              \A n \in DOMAIN res.nodes :
                  (InTemplate(HeadingLine(n)) /\ res.nodes[n].metadata.id # "") =>
                      /\ AnchorBefore(res.templateContent, HeadingLine(n),
                                      res.nodes[n].metadata.id)
                      /\ AnchorBefore(res.blankContent, HeadingLine(n),
                                      res.nodes[n].metadata.id)
        /\ ~opts.includeAnchors =>
              LET withAnchors == filterPartContent(lines, [opts EXCEPT !.includeAnchors = TRUE])
              IN /\ AnchorsOf(res.templateContent) = {}
                 /\ AnchorsOf(res.blankContent) = {}
                 /\ SeeAlsoOf(res.templateContent) = SeeAlsoOf(withAnchors.templateContent)
                 /\ SeeAlsoOf(res.blankContent) = SeeAlsoOf(withAnchors.blankContent)

\* the same for the sections whose marker is written in the "//" form
C14_SlashSections ==
    Done =>
        /\ opts.includeAnchors =>
              \A n \in DOMAIN res.nodes :
                  (/\ InTemplate(HeadingLine(n)) /\ res.nodes[n].metadata.id # ""
                   /\ SlashMarked(n)) =>
                      /\ AnchorBefore(res.templateContent, HeadingLine(n),
                                      res.nodes[n].metadata.id)
                      /\ AnchorBefore(res.blankContent, HeadingLine(n),
                                      res.nodes[n].metadata.id)
        /\ ~opts.includeAnchors =>
              LET withAnchors == filterPartContent(lines, [opts EXCEPT !.includeAnchors = TRUE])
              IN /\ AnchorsOf(res.templateContent) = {}
                 /\ AnchorsOf(res.blankContent) = {}
                 /\ SeeAlsoOf(res.templateContent) = SeeAlsoOf(withAnchors.templateContent)
                 /\ SeeAlsoOf(res.blankContent) = SeeAlsoOf(withAnchors.blankContent)

(***************************************************************************)
(* The spacing of the blank output.                                        *)
(***************************************************************************)
\* what the j-th line of blankContent is: "empty" or what classifyLine says
KindInBlank(j) ==
    LET e == res.blankContent.ls[j]
    IN IF IsEmptyEntry(e, lines) THEN "empty" ELSE classifyLine(e, lines)

\* C15: in blankContent no two empty lines follow one another and none is
\* first or last; an anchor is directly followed by its heading; a heading
\* is directly followed by its See also paragraph or an attribute line, or
\* by one empty line and then the next section's anchor or heading; a See
\* also paragraph is followed by one empty line; an attribute line is
\* followed by an attribute line or by one empty line and then a line that
\* is no attribute line.
C15_BlankSpacing ==
    Done =>
        LET out == res.blankContent.ls
            last == Len(out)
        IN /\ last > 0 => KindInBlank(1) # "empty" /\ KindInBlank(last) # "empty"
           /\ \A j \in 1 .. last - 1 :
                 LET this == KindInBlank(j)
                     next == KindInBlank(j + 1)
                     after == IF j + 2 <= last THEN KindInBlank(j + 2) ELSE "none"
                 IN /\ this = "empty" => next # "empty"
                    /\ this = "anchor" =>
                          /\ next = "heading"
                          /\ out[j + 1] = LineEntry(out[j].i)
                    /\ this = "heading" =>
                          \/ next = "seeAlso" /\ out[j + 1].i = out[j].i
                          \/ next = "attribute"
                          \/ next = "empty" /\ after \in {"anchor", "heading"}
                    /\ this = "seeAlso" => next = "empty" /\ after # "empty"
                    /\ this = "attribute" =>
                          \/ next = "attribute"
                          \/ next = "empty" /\ after \notin {"attribute", "empty"}
                    /\ this \in {"empty", "anchor", "heading", "seeAlso", "attribute"}

\* a blank output with an anchor, a See also paragraph followed by the next
\* section, and an attribute line followed by a heading
C15_Witness ==
    /\ Done
    /\ \E a, s, t \in 1 .. Len(res.blankContent.ls) - 2 :
          /\ KindInBlank(a) = "anchor"
          /\ KindInBlank(s) = "seeAlso" /\ KindInBlank(s + 2) \in {"anchor", "heading"}
          /\ KindInBlank(t) = "attribute" /\ KindInBlank(t + 2) = "heading"

(***************************************************************************)
(* The newline at the end of the outputs.                                  *)
(***************************************************************************)
\* the content, its lines joined by "\n" and its final newline if any,
\* ends with "\n"
EndsWithNewline(content) ==
    /\ content.ls # <<>>
    /\ \/ content.nl
       \/ Len(content.ls) >= 2 /\ IsEmptyEntry(content.ls[Len(content.ls)], lines)

\* C16 as stated: each output ends with a newline exactly when the text does.
C16_AsStated ==
    Done =>
        /\ EndsWithNewline(res.templateContent) <=> hadTrailingNewlineOf(lines)
        /\ EndsWithNewline(res.blankContent) <=> hadTrailingNewlineOf(lines)

\* C16: an output that has a line ends with a newline exactly when the text
\* does; an output without a line is the empty string.
C16_TrailingNewline ==
    Done =>
        \A content \in {res.templateContent, res.blankContent} :
            IF content.ls = <<>> THEN ~content.nl
            ELSE EndsWithNewline(content) <=> hadTrailingNewlineOf(lines)

\* a text that ends with a newline is filtered: the template has lines and
\* ends with a newline, the blank output has no line
C16_Witness ==
    /\ Done /\ hadTrailingNewlineOf(lines)
    /\ res.templateContent.ls # <<>> /\ EndsWithNewline(res.templateContent)
    /\ res.blankContent.ls = <<>>

(***************************************************************************)
(* The parser alone: a text with headings of three levels, valid and       *)
(* malformed markers, prose and empty lines is typed, then parsed.         *)
(***************************************************************************)
\* a marker line whose payload JSON.parse rejects
MetaBad == M(NoJson, "slash")

ParseAlphabet ==
    {H(1, T1), H(2, T1), H(3, T1), MetaLabels(<<La>>), MetaBad, Body, Empty}

InitParse == InitDoc(ParseAlphabet)

TypeParseLine == AddLine(ParseAlphabet)

Parse ==
    /\ pc = "edit"
    /\ res' = [NoResult EXCEPT !.nodes = parseAsciiDocSections(lines)]
    /\ pc' = "parsed"
    /\ UNCHANGED <<lines, opts, matcher, build, fetch>>

NextParse == TypeParseLine \/ Parse

SpecParse == InitParse /\ [][NextParse]_vars

Parsed == pc = "parsed"

\* C17: every section of the forest starts at or before the line it ends
\* on, within the text; the range of a section lies inside the range of each
\* of its ancestors; of two sections with the same parent (or two roots) the
\* earlier one ends before the later one starts.
C17_Ranges ==
    Parsed =>
        /\ \A n \in DOMAIN res.nodes :
              /\ 0 <= res.nodes[n].startLine
              /\ res.nodes[n].startLine <= res.nodes[n].endLine
              /\ res.nodes[n].endLine <= Len(lines) - 1
              /\ \A a \in Ancestors(res.nodes, n) :
                    /\ res.nodes[a].startLine <= res.nodes[n].startLine
                    /\ res.nodes[n].endLine <= res.nodes[a].endLine
        /\ \A m, n \in DOMAIN res.nodes :
              (m < n /\ res.nodes[m].parent = res.nodes[n].parent) =>
                  res.nodes[m].endLine < res.nodes[n].startLine

\* a forest with two roots, the first with two subsections of which the
\* second starts on its marker
C17_Witness ==
    /\ Parsed
    /\ \E r, c, d, q \in DOMAIN res.nodes :
          /\ r < q /\ res.nodes[r].parent = 0 /\ res.nodes[q].parent = 0
          /\ c < d /\ res.nodes[c].parent = r /\ res.nodes[d].parent = r
          /\ lines[res.nodes[d].startLine + 1].k = "m"

\* a marker line whose payload is malformed
Malformed(j) == lines[j + 1].k = "m" /\ ~lines[j + 1].json.ok

\* the markers that are pending at the heading on line h: those before it
\* with nothing but markers and empty lines up to the heading
PendingAt(h) ==
    {j \in 0 .. h - 1 :
        /\ lines[j + 1].k = "m"
        /\ \A i \in j + 1 .. h - 1 : lines[i + 1].k \in {"m", "e"}}

\* the heading of the section follows a malformed marker: the marker
\* closest to it is pending and malformed
FollowsMalformed(n) ==
    /\ PendingAt(HeadingLine(n)) # {}
    /\ \E j \in PendingAt(HeadingLine(n)) :
          Malformed(j) /\ \A i \in PendingAt(HeadingLine(n)) : i <= j

\* C18: a heading that follows a malformed marker is parsed as a section
\* without metadata.
C18_MalformedIsNoMetadata ==
    Parsed =>
        \A n \in DOMAIN res.nodes :
            FollowsMalformed(n) => ~res.nodes[n].metadata.defined

\* the same when every marker pending at the heading is malformed
C18_OnlyMalformedPending ==
    Parsed =>
        \A n \in DOMAIN res.nodes :
            (/\ PendingAt(HeadingLine(n)) # {}
             /\ \A j \in PendingAt(HeadingLine(n)) : Malformed(j)) =>
                ~res.nodes[n].metadata.defined

(***************************************************************************)
(* The loader. fetchTemplateAndParts fetches the manifest and the README,  *)
(* then the parts the manifest lists, with at most `concurrency` workers   *)
(* that take the next part from a shared index. A worker is [at, i]: at    *)
(* the head of its loop, awaiting the fetch of part i, awaiting the text   *)
(* of its response, or done. A result is [ok, part, failure].              *)
(***************************************************************************)
FilePool == <<"p1.adoc", "p2.adoc", "p3.adoc", "p4.adoc">>

\* the texts a part's URL may serve
ContentPool ==
    {<<H(1, T1), Body>>, <<MetaId, H(2, T1)>>, <<MetaBad, H(2, T1)>>,
     <<MetaId, H(1, T1), MetaHtml, H(2, T2)>>}

\* what a fetch may do: answer, answer with a status that is not OK, throw,
\* or run into the timeout (AbortError)
ReplyPool == {"ok", "404", "500", "throws", "timeout"}

\* opts?.concurrency: absent, or an integer
ConcurrencyPool ==
    {NoConcurrency} \cup {[given |-> TRUE, value |-> v] : v \in -1 .. MaxConcurrency}

\* Math.max(1, opts?.concurrency ?? 6)
concurrencyOf(requested) ==
    Max(1, IF requested.given THEN requested.value ELSE DefaultConcurrency)

NoPart == [name |-> "", file |-> "", content |-> <<>>, sections |-> <<>>]

NoFailure == [file |-> "", status |-> "", message |-> ""]

PartFetchFailure(file, status, message) ==
    [file |-> file, status |-> status, message |-> message]

\* only the first failure of the results
firstFailureOf(results) ==
    LET failed == {i \in DOMAIN results : ~results[i].ok}
    IN IF failed = {} THEN <<>>
       ELSE <<results[CHOOSE i \in failed : \A j \in failed : i <= j].failure>>

\* results.filter(r => !r.ok).map(r => r.failure)
failuresOf(results) ==
    LET failed == FilterSeq(results, {i \in DOMAIN results : ~results[i].ok})
    IN [i \in DOMAIN failed |-> failed[i].failure]

\* results.filter(r => r.ok).map(r => r.part)
successesOf(results) ==
    LET passed == FilterSeq(results, {i \in DOMAIN results : results[i].ok})
    IN [i \in DOMAIN passed |-> passed[i].part]

\* visit over the sections of the parts from part p on: the locations
\* [file, title] of the sections that carry the id, in the order met
RECURSIVE locationsFrom(_, _, _)
locationsFrom(parts, p, id) ==
    IF p > Len(parts) THEN <<>>
    ELSE LET sections == parts[p].sections
             carrying == FilterSeq(sections,
                             {n \in DOMAIN sections : sections[n].metadata.id = id})
         IN [n \in DOMAIN carrying |->
                [file |-> parts[p].file, title |-> carrying[n].title]]
            \o locationsFrom(parts, p + 1, id)

\* the ids of the sections of the parts (an empty id is no id)
sectionIdsOf(parts) ==
    {parts[p].sections[n].metadata.id :
        <<p, n>> \in {x \in (DOMAIN parts) \X (1 .. MaxLines) :
                        x[2] \in DOMAIN parts[x[1]].sections}} \ {""}

\* only the ids that one part carries twice
findDuplicateSectionIdsPerPart(parts) ==
    {[id |-> id, locations |-> locationsFrom(parts, 1, id)] :
        id \in {i \in sectionIdsOf(parts) :
                   \E p \in DOMAIN parts :
                       Len(locationsFrom(<<parts[p]>>, 1, i)) > 1}}

\* the ids that more than one section of the parts carries, each with the
\* locations of the sections that carry it
findDuplicateSectionIds(parts) ==
    {[id |-> id, locations |-> locationsFrom(parts, 1, id)] :
        id \in {i \in sectionIdsOf(parts) : Len(locationsFrom(parts, 1, i)) > 1}}

InitFetch ==
    /\ lines = <<>>
    /\ opts = NoOptions
    /\ res = NoResult
    /\ matcher = NoMatcher
    /\ build = NoBuild
    /\ fetch = NoFetch
    /\ pc = "manifest"

\* the manifest lists one more part
ListPart ==
    /\ pc = "manifest"
    /\ Len(fetch.toFetch) < MaxFetch
    /\ fetch' = [fetch EXCEPT !.toFetch = Append(@, FilePool[Len(@) + 1]),
                              !.replies = Append(@, "pending"),
                              !.takers = Append(@, <<>>)]
    /\ UNCHANGED <<lines, opts, res, matcher, build, pc>>

\* the call up to the workers: the manifest and the README are fetched, and
\* either fetch may throw
StartWorkers ==
    /\ pc = "manifest"
    /\ \E requested \in ConcurrencyPool, found \in BOOLEAN :
          LET concurrency == concurrencyOf(requested)
          IN IF found
             THEN /\ fetch' = [fetch EXCEPT
                         !.requested = requested,
                         !.concurrency = concurrency,
                         !.workers = [w \in 1 .. Min(concurrency, Len(fetch.toFetch)) |->
                                         [at |-> "loop", i |-> 0]]]
                  /\ pc' = "workers"
             ELSE /\ fetch' = [fetch EXCEPT !.requested = requested,
                                            !.concurrency = concurrency,
                                            !.outcome = "Error"]
                  /\ pc' = "rejected"
    /\ UNCHANGED <<lines, opts, res, matcher, build>>

\* a worker that takes a part and leaves the next one out
TakeSkipping(w) ==
    /\ pc = "workers"
    /\ fetch.workers[w].at = "loop"
    /\ fetch.index < Len(fetch.toFetch)
    /\ fetch' = [fetch EXCEPT !.index = @ + 2,
                              !.workers[w] = [at |-> "fetch", i |-> fetch.index + 1],
                              !.takers[fetch.index + 1] = Append(@, w)]
    /\ UNCHANGED <<lines, opts, res, matcher, build, pc>>

\* while (index < toFetch.length) { const i = index++; ... await fetchWithTimeout
Take(w) ==
    /\ pc = "workers"
    /\ fetch.workers[w].at = "loop"
    /\ fetch.index < Len(fetch.toFetch)
    /\ fetch' = [fetch EXCEPT !.index = @ + 1,
                              !.workers[w] = [at |-> "fetch", i |-> fetch.index + 1],
                              !.takers[fetch.index + 1] = Append(@, w)]
    /\ UNCHANGED <<lines, opts, res, matcher, build, pc>>

\* the loop of a worker ends
Leave(w) ==
    /\ pc = "workers"
    /\ fetch.workers[w].at = "loop"
    /\ fetch.index >= Len(fetch.toFetch)
    /\ fetch' = [fetch EXCEPT !.workers[w] = [at |-> "done", i |-> 0]]
    /\ UNCHANGED <<lines, opts, res, matcher, build, pc>>

\* the fetch of a worker settles
Respond(w) ==
    /\ pc = "workers"
    /\ fetch.workers[w].at = "fetch"
    /\ LET i == fetch.workers[w].i
           file == fetch.toFetch[i]
           failed(status, message) ==
               [fetch EXCEPT
                   !.results = Append(@, [ok |-> FALSE, part |-> NoPart,
                                          failure |-> PartFetchFailure(file, status, message)]),
                   !.workers[w] = [at |-> "loop", i |-> 0]]
       IN \E reply \in ReplyPool :
             fetch' = [(IF reply = "ok"
                        THEN [fetch EXCEPT !.workers[w] = [at |-> "text", i |-> i]]
                        ELSE IF reply \in {"404", "500"}
                        THEN failed(reply, "HTTP status")
                        ELSE IF reply = "timeout"
                        THEN failed("", "Timed out")
                        ELSE failed("", "fetch threw"))
                      EXCEPT !.replies[i] = reply]
    /\ UNCHANGED <<lines, opts, res, matcher, build, pc>>

\* the text of a response is read and parsed, or reading it throws
ReadText(w) ==
    /\ pc = "workers"
    /\ fetch.workers[w].at = "text"
    /\ LET i == fetch.workers[w].i
           file == fetch.toFetch[i]
       IN \/ \E content \in ContentPool :
                fetch' = [fetch EXCEPT
                    !.results = Append(@, [ok |-> TRUE,
                                           part |-> Part(file, file, content),
                                           failure |-> NoFailure]),
                    !.workers[w] = [at |-> "loop", i |-> 0]]
          \/ fetch' = [fetch EXCEPT
                    !.results = Append(@, [ok |-> FALSE, part |-> NoPart,
                                           failure |-> PartFetchFailure(file, "", "text threw")]),
                    !.workers[w] = [at |-> "loop", i |-> 0],
                    !.replies[i] = "throws"]
    /\ UNCHANGED <<lines, opts, res, matcher, build, pc>>

WorkerTakes == \E w \in DOMAIN fetch.workers : Take(w)

WorkerLeaves == \E w \in DOMAIN fetch.workers : Leave(w)

FetchSettles == \E w \in DOMAIN fetch.workers : Respond(w)

TextSettles == \E w \in DOMAIN fetch.workers : ReadText(w)

\* after Promise.all(workers): the failures are thrown together, then the
\* ids are checked, then the parts are returned
Settle ==
    /\ pc = "workers"
    /\ \A w \in DOMAIN fetch.workers : fetch.workers[w].at = "done"
    /\ LET failures == failuresOf(fetch.results)
           successes == successesOf(fetch.results)
       IN IF Len(failures) > 0
          THEN /\ fetch' = [fetch EXCEPT !.outcome = "PartFetchError",
                                         !.failures = failures]
               /\ pc' = "rejected"
          ELSE IF findDuplicateSectionIds(successes) # {}
          THEN /\ fetch' = [fetch EXCEPT !.outcome = "Error",
                                         !.dups = findDuplicateSectionIds(successes)]
               /\ pc' = "rejected"
          ELSE /\ fetch' = [fetch EXCEPT !.outcome = "returned", !.parts = successes]
               /\ pc' = "resolved"
    /\ UNCHANGED <<lines, opts, res, matcher, build>>

NextFetch ==
    ListPart \/ StartWorkers \/ WorkerTakes \/ WorkerLeaves \/ FetchSettles
        \/ TextSettles \/ Settle

SpecFetch == InitFetch /\ [][NextFetch]_vars

\* the call has ended
Settled == pc \in {"rejected", "resolved"}

\* the parts whose fetch failed
FailedParts ==
    {i \in DOMAIN fetch.replies : fetch.replies[i] \notin {"pending", "ok"}}

\* a part that was fetched holds a marker with a malformed payload
InvalidMetadataFetched ==
    \E r \in DOMAIN fetch.results :
        /\ fetch.results[r].ok
        /\ \E j \in DOMAIN fetch.results[r].part.content :
              LET line == fetch.results[r].part.content[j]
              IN line.k = "m" /\ ~line.json.ok

\* C19: a call that fetched a part with a malformed marker is rejected with
\* a PartFetchError.
C19_InvalidMetadataRejected ==
    (Settled /\ InvalidMetadataFetched) => fetch.outcome = "PartFetchError"

FetchedSections ==
    {x \in (DOMAIN fetch.results) \X (1 .. MaxLines) :
        /\ fetch.results[x[1]].ok
        /\ x[2] \in DOMAIN fetch.results[x[1]].part.sections}

\* the sections of the fetched parts that carry the id
Carrying(id) ==
    {x \in FetchedSections :
        fetch.results[x[1]].part.sections[x[2]].metadata.id = id}

\* the ids that more than one section of the fetched parts carries
DuplicatedIds ==
    {id \in {"s1", "s2"} : Cardinality(Carrying(id)) > 1}

\* the error names every duplicated id, and for each every section that
\* carries it, by file and title
NamesDuplicates ==
    /\ {d.id : d \in fetch.dups} = DuplicatedIds
    /\ \A d \in fetch.dups :
          /\ Len(d.locations) = Cardinality(Carrying(d.id))
          /\ \A x \in Carrying(d.id) :
                \E l \in DOMAIN d.locations :
                    /\ d.locations[l].file = fetch.results[x[1]].part.file
                    /\ d.locations[l].title =
                           fetch.results[x[1]].part.sections[x[2]].title

\* the workers have ended and the call has ended after them
SettledAfterWorkers == Settled /\ fetch.workers # <<>>

\* C21 as stated: a call whose fetched parts carry an id twice ends with the
\* duplicate-id error, whatever became of the other parts.
C21_AsStated ==
    (SettledAfterWorkers /\ DuplicatedIds # {}) =>
        /\ fetch.outcome = "Error"
        /\ NamesDuplicates

\* C21: a call in which every part was fetched and whose parts carry an id
\* on more than one section ends with the duplicate-id error, which names
\* every duplicated id with the file and title of every section that
\* carries it, and returns no parts; a call that returns has no such id.
C21_DuplicateIdsRejected ==
    /\ (SettledAfterWorkers /\ FailedParts = {} /\ DuplicatedIds # {}) =>
          /\ pc = "rejected"
          /\ fetch.outcome = "Error"
          /\ fetch.parts = <<>>
          /\ NamesDuplicates
    /\ fetch.outcome = "returned" => (DuplicatedIds = {} /\ fetch.dups = {})

\* three parts were fetched, two ids are carried more than once, one of them
\* by three sections, and the call was rejected
C21_Witness ==
    /\ pc = "rejected" /\ fetch.outcome = "Error"
    /\ Len(fetch.results) = 3 /\ FailedParts = {}
    /\ Cardinality(fetch.dups) = 2
    /\ \E d \in fetch.dups : Len(d.locations) = 3

(***************************************************************************)
(* The order of the filtered parts.                                        *)
(***************************************************************************)
\* the places at which the manifest lists the file
PlacesOf(file) ==
    {i \in DOMAIN build.manifest.parts : build.manifest.parts[i] = file}

\* the files of the filtered parts, in their order
FilteredFiles == [i \in DOMAIN build.filteredParts |-> build.filteredParts[i].file]

\* C22: the filtered parts that the manifest lists come in the order in
\* which the manifest lists them, whatever the order of the parts in the
\* fetch result; each filtered part is the filtering of a part of the result.
C22_ManifestOrder ==
    pc \in {"loop", "returned"} =>
        /\ \A i, j \in DOMAIN build.filteredParts :
              (i < j /\ PlacesOf(FilteredFiles[i]) # {} /\ PlacesOf(FilteredFiles[j]) # {}) =>
                  \A a \in PlacesOf(FilteredFiles[i]), b \in PlacesOf(FilteredFiles[j]) :
                      a <= b
        /\ \A i \in DOMAIN build.filteredParts :
              \E p \in DOMAIN build.parts : build.parts[p].file = FilteredFiles[i]

\* the result holds p1.adoc before p2.adoc, the manifest lists p2.adoc
\* before p1.adoc, and the call returned p2.adoc before p1.adoc
C22_Witness ==
    /\ pc = "returned"
    /\ Len(build.parts) = 2
    /\ build.parts[1].file = "p1.adoc" /\ build.parts[2].file = "p2.adoc"
    /\ build.manifest.parts = <<"p2.adoc", "p1.adoc">>
    /\ FilteredFiles = <<"p2.adoc", "p1.adoc">>

(***************************************************************************)
(* loadFilteredParts: the selectable labels are computed from the fetched  *)
(* template, a selection that lists all of them is replaced by the empty   *)
(* one, and buildFilteredPartsFromResult is called with the drop rules as  *)
(* a map. The selectable labels are kept as a set: their sort is not       *)
(* modelled.                                                               *)
(***************************************************************************)
\* buildLabelOrder: the names of the definitions that have values
multiValueNamesOf(defs) ==
    {defs[i].name : i \in {j \in DOMAIN defs :
                              defs[j].name # "" /\ defs[j].available_values # <<>>}}

\* `${name}::${trimmed}` for every value of every definition
definedLabelValues(defs) ==
    UNION {{Label(<<defs[i].name, v>>) :
               v \in {w \in SeqToSet(defs[i].available_values) : w # ""}} :
           i \in {j \in DOMAIN defs : defs[j].name # ""}}

\* label.endsWith('::*')
EndsWithStar(label) ==
    ~label.pad /\ Len(label.s) >= 2 /\ label.s[Len(label.s)] = "*"

selectableLabelsOf(knownSet, defs) ==
    LET discoveredSingles ==
            {l \in knownSet : Len(l.s) = 1 /\ l.s[1] \notin multiValueNamesOf(defs)}
    IN {l \in discoveredSingles \cup definedLabelValues(defs) : ~EndsWithStar(l)}

\* a selection is never taken for all the selectable labels
isNeverAllSelected(labelsToInclude, selectableLabels) == FALSE

isAllSelected(labelsToInclude, selectableLabels) ==
    /\ Len(labelsToInclude) > 0
    /\ Len(labelsToInclude) = Cardinality(selectableLabels)
    /\ \A l \in selectableLabels : l \in SeqToSet(labelsToInclude)

effectiveLabelsOf(labelsToInclude, selectableLabels) ==
    IF Len(labelsToInclude) = 0 \/ isAllSelected(labelsToInclude, selectableLabels)
    THEN <<>> ELSE labelsToInclude

\* a rule is [partFile, sectionTitle]; the map gives each file the trimmed
\* titles of its rules
toDropMap(rules) ==
    LET valid == {i \in DOMAIN rules :
                     rules[i].partFile # "" /\ trim(rules[i].sectionTitle).base # ""}
    IN [f \in {rules[i].partFile : i \in valid} |->
           {trim(rules[i].sectionTitle) : i \in {j \in valid : rules[j].partFile = f}}]

\* one turn of the loop over orderedParts: nothing for a part without content
\* or whose filtered contents are both empty, else the part's entry
filteredPartOf(part, filtered) ==
    IF part.content = <<Empty>> THEN <<>>
    ELSE IF ~hasContent(filtered.templateContent) /\ ~hasContent(filtered.blankContent)
    THEN <<>>
    ELSE <<[name |-> part.name, file |-> part.file,
            templateContent |-> filtered.templateContent,
            blankContent |-> filtered.blankContent]>>

\* the loop over orderedParts, from part k on
RECURSIVE filteredPartsFrom(_, _, _, _, _, _, _)
filteredPartsFrom(orderedParts, k, labelsToInclude, dropByPart, linkIndex, includeAnchors, manifestLang) ==
    IF k > Len(orderedParts) THEN <<>>
    ELSE filteredPartOf(orderedParts[k],
             filterPartContent(orderedParts[k].content,
                 [includeLabels |-> labelsToInclude,
                  dropTitles |-> IF orderedParts[k].file \in DOMAIN dropByPart
                                 THEN dropByPart[orderedParts[k].file] ELSE {},
                  wildcard |-> FALSE,
                  includeAnchors |-> includeAnchors,
                  linkIndex |-> linkIndex,
                  currentFile |-> orderedParts[k].file,
                  manifestLang |-> manifestLang]))
         \o filteredPartsFrom(orderedParts, k + 1, labelsToInclude, dropByPart,
                              linkIndex, includeAnchors, manifestLang)

\* the call as a whole: the error it throws, or the parts it returns
buildFilteredPartsFromResult(parts, manifest, labelsToInclude, knownLabels, dropByPart, includeAnchors) ==
    LET unknown == unknownLabels(labelsToInclude, knownLabels)
    IN IF Len(labelsToInclude) > 0 /\ Len(unknown) > 0
       THEN [error |-> [thrown |-> TRUE, prefix |-> "Unknown label(s): ",
                        labels |-> unknown],
             filteredParts |-> <<>>]
       ELSE [error |-> NoError,
             filteredParts |->
                 filteredPartsFrom(orderedPartsOf(parts, manifest.parts), 1,
                                   labelsToInclude, dropByPart, buildLinkIndex(parts),
                                   includeAnchors,
                                   IF manifest.language = NoLanguage
                                   THEN "en" ELSE manifest.language)]

Lxy == Label(<<"x", "y">>)

\* what fetchTemplateAndParts may have returned: the manifest and its parts
ResultPool ==
    {[manifest |-> [language |-> "en", parts |-> <<"p1.adoc", "p2.adoc">>,
                    labels |-> <<[name |-> "n", available_values |-> <<"a">>]>>],
      parts |-> <<Part("p2", "p2.adoc", <<H(1, T2), MetaLabels(<<Lna>>), H(2, T1)>>),
                  Part("p1", "p1.adoc",
                       <<Body, H(1, T1), MetaLabels(<<La>>), H(2, T2), Body>>)>>],
     [manifest |-> [language |-> NoLanguage, parts |-> <<"p1.adoc">>, labels |-> <<>>],
      parts |-> <<Part("p1", "p1.adoc",
                       <<H(1, T1), MetaLabels(<<La>>), H(2, T2), MetaLabels(<<Lxy>>),
                         H(2, T1)>>)>>],
     [manifest |-> [language |-> "fr", parts |-> <<"p1.adoc">>, labels |-> <<>>],
      parts |-> <<Part("p1", "p1.adoc", <<H(1, T1), H(2, T2), Body>>)>>]}

LoadSelectionPool == {La, Lna, Lxy, Lx}

DropRulePool ==
    {[partFile |-> "p1.adoc", sectionTitle |-> Str("t2", FALSE, TRUE)],
     [partFile |-> "p2.adoc", sectionTitle |-> T1],
     [partFile |-> "p1.adoc", sectionTitle |-> Str("", FALSE, TRUE)]}

InitLoad ==
    /\ lines = <<>>
    /\ opts = NoOptions
    /\ res = NoResult
    /\ matcher = NoMatcher
    /\ build \in {[NoBuild EXCEPT !.parts = r.parts, !.manifest = r.manifest] :
                     r \in ResultPool}
    /\ fetch = NoFetch
    /\ pc = "args"

SelectForLoad ==
    /\ pc = "args"
    /\ Len(build.labelsToInclude) < MaxSelected
    /\ \E l \in LoadSelectionPool :
          build' = [build EXCEPT !.labelsToInclude = Append(@, l)]
    /\ UNCHANGED <<lines, opts, res, matcher, fetch, pc>>

AddDropRule ==
    /\ pc = "args"
    /\ Len(build.dropRules) < MaxDropRules
    /\ \E r \in DropRulePool : build' = [build EXCEPT !.dropRules = Append(@, r)]
    /\ UNCHANGED <<lines, opts, res, matcher, fetch, pc>>

\* the state of the call once the parts are built
loadedWith(b, knownSet, selectableLabels, effectiveLabels, dropByPart, built) ==
    [b EXCEPT !.knownSet = [given |-> TRUE, set |-> knownSet],
              !.knownLabels = knownSet,
              !.selectableLabels = selectableLabels,
              !.effectiveLabels = effectiveLabels,
              !.dropByPart = dropByPart,
              !.filteredParts = built.filteredParts,
              !.error = built.error]

loadFilteredParts ==
    /\ pc = "args"
    /\ \E includeAnchors \in BOOLEAN :
          LET knownSet == buildKnownLabelSet(build.parts, build.manifest.labels)
              selectableLabels == selectableLabelsOf(knownSet, build.manifest.labels)
              effectiveLabels == effectiveLabelsOf(build.labelsToInclude, selectableLabels)
              dropByPart == toDropMap(build.dropRules)
          IN /\ build' = loadedWith(build, knownSet, selectableLabels, effectiveLabels,
                              dropByPart,
                              buildFilteredPartsFromResult(build.parts, build.manifest,
                                  effectiveLabels, knownSet, dropByPart, includeAnchors))
             /\ opts' = [NoOptions EXCEPT !.includeAnchors = includeAnchors]
             /\ pc' = IF build'.error.thrown THEN "thrown" ELSE "returned"
    /\ UNCHANGED <<lines, res, matcher, fetch>>

NextLoad == SelectForLoad \/ AddDropRule \/ loadFilteredParts

SpecLoad == InitLoad /\ [][NextLoad]_vars

\* the selection lists the selectable labels, each of them once
ListsEverySelectable ==
    /\ build.selectableLabels # {}
    /\ SeqToSet(build.labelsToInclude) = build.selectableLabels
    /\ Len(build.labelsToInclude) = Cardinality(build.selectableLabels)

\* what the call returns for the empty selection
ForEmptySelection ==
    buildFilteredPartsFromResult(build.parts, build.manifest, <<>>, build.knownLabels,
                                 toDropMap(build.dropRules), opts.includeAnchors)

NthHeading(n) ==
    CHOOSE i \in 0 .. Len(lines) - 1 :
        /\ lines[i + 1].k = "h"
        /\ Cardinality({j \in 0 .. i : lines[j + 1].k = "h"}) = n

\* the marker closest to the heading on line h among those pending at it
ClosestPending(h) == CHOOSE j \in PendingAt(h) : \A i \in PendingAt(h) : i <= j

\* C24: the metadata of a section is the metadata of a marker with nothing
\* but markers and empty lines between it and the heading, and the section
\* then starts on that marker's line; a heading with no such marker before
\* it opens a section without metadata that starts on the heading's line.
C24_MarkerAttachment ==
    Parsed =>
        \A n \in DOMAIN res.nodes :
            LET h == NthHeading(n)
                node == res.nodes[n]
            IN /\ node.metadata.defined =>
                     \E j \in PendingAt(h) :
                         /\ lines[j + 1].json.ok
                         /\ node.metadata = parseMetadata(lines[j + 1].json)
                         /\ node.startLine = j
               /\ PendingAt(h) = {} =>
                     (~node.metadata.defined /\ node.startLine = h)

\* the same for the headings at which no malformed marker is pending, and
\* the closest pending marker is the one that attaches
C24_WellFormedMarkers ==
    Parsed =>
        \A n \in DOMAIN res.nodes :
            LET h == NthHeading(n)
                node == res.nodes[n]
            IN /\ (PendingAt(h) # {} /\ \A j \in PendingAt(h) : ~Malformed(j)) =>
                     /\ node.metadata = parseMetadata(lines[ClosestPending(h) + 1].json)
                     /\ node.startLine = ClosestPending(h)
               /\ PendingAt(h) = {} =>
                     (~node.metadata.defined /\ node.startLine = h)
               /\ PendingAt(h) # {} => node.startLine = ClosestPending(h)

(***************************************************************************)
(* The mask that createKeepMask builds, before the first level-1 heading   *)
(* is forced into it and before the drop rules.                            *)
(***************************************************************************)
ConstructedMask ==
    createKeepMask(Len(lines), res.nodes,
                   buildSectionDecisions(res.nodes, normalizeLabels(opts.includeLabels),
                                         opts.wildcard))

\* the sections whose range holds the line
Covering(i) == {n \in DOMAIN res.nodes : i \in Range(n)}

\* the section is unlabeled, or every label of it is selected
KeptByLabels(n) == Labeled(n) => AllSelected(n)

\* C25 as stated: under a non-empty selection the mask does not hold the
\* heading line of an unlabeled section whose ancestors are kept.
C25_AsStated ==
    (Done /\ Selection # {}) =>
        \A n \in DOMAIN res.nodes :
            (~Labeled(n) /\ AncestorsKept(n)) => ~ConstructedMask[HeadingLine(n)]

\* C25: under a non-empty selection the mask holds a line if and only if
\* the line lies in a section and every section around it is kept, that is
\* unlabeled or labeled with selected labels only: a kept section, labeled
\* or not, marks the lines of its range outside its subsections, its
\* heading line among them, and the walk goes on into its subsections.
C25_KeptSectionsMarkOwnLines ==
    (Done /\ Selection # {}) =>
        \A i \in 0 .. Len(lines) - 1 :
            ConstructedMask[i] <=>
                (Covering(i) # {} /\ \A n \in Covering(i) : KeptByLabels(n))

\* under a non-empty selection an unlabeled section with a labeled
\* subsection that is left out has its heading line in the mask, and the
\* lines of the subsection are not in it
C25_Witness ==
    /\ Done /\ Selection # {}
    /\ \E n, c \in DOMAIN res.nodes :
          /\ ~Labeled(n) /\ res.nodes[n].parent = 0
          /\ res.nodes[c].parent = n /\ Labeled(c) /\ ~AllSelected(c)
          /\ ConstructedMask[HeadingLine(n)]
          /\ \A i \in Range(c) : ~ConstructedMask[i]

(***************************************************************************)
(* The workers and the parts they take.                                    *)
(***************************************************************************)
\* the workers whose request for a part has not been answered in full
InFlight == {w \in DOMAIN fetch.workers : fetch.workers[w].at \in {"fetch", "text"}}

\* the workers have been started
WorkersStarted == pc = "workers" \/ SettledAfterWorkers

\* C26: the concurrency is the one asked for, 6 when none is asked for, and
\* 1 when less than 1 is asked for; as many workers are started as the
\* smaller of the concurrency and the number of parts; no part is taken
\* twice, the parts taken are the first ones of the manifest without a gap,
\* a part that was taken is requested by the worker that took it, and when
\* the call ends every part was taken by one worker and answered; the
\* requests in flight are never more than the workers.
C26_WorkersPartitionParts ==
    /\ pc # "manifest" =>
          /\ fetch.concurrency >= 1
          /\ ~fetch.requested.given => fetch.concurrency = 6
          /\ (fetch.requested.given /\ fetch.requested.value >= 1) =>
                fetch.concurrency = fetch.requested.value
    /\ WorkersStarted =>
          /\ (fetch.toFetch # <<>> \/ fetch.workers # <<>>) =>
                Len(fetch.workers) = Min(fetch.concurrency, Len(fetch.toFetch))
          /\ \A i \in DOMAIN fetch.toFetch :
                /\ Len(fetch.takers[i]) <= 1
                /\ Len(fetch.takers[i]) = 1 <=> i <= fetch.index
                /\ fetch.replies[i] # "pending" => Len(fetch.takers[i]) = 1
                /\ (Len(fetch.takers[i]) = 1 /\ fetch.replies[i] = "pending") =>
                      fetch.workers[fetch.takers[i][1]] = [at |-> "fetch", i |-> i]
          /\ \A w, x \in InFlight : w # x => fetch.workers[w].i # fetch.workers[x].i
          /\ Cardinality(InFlight) <= Min(fetch.concurrency, Len(fetch.toFetch))
    /\ SettledAfterWorkers =>
          \A i \in DOMAIN fetch.toFetch :
              Len(fetch.takers[i]) = 1 /\ fetch.replies[i] # "pending"

\* a call that asked for no concurrency runs three workers over three
\* parts, each with the request for one part in flight
C26_Witness ==
    /\ pc = "workers"
    /\ ~fetch.requested.given /\ fetch.concurrency = 6
    /\ Len(fetch.toFetch) = 3 /\ Len(fetch.workers) = 3
    /\ Cardinality(InFlight) = 3
    /\ \A i \in DOMAIN fetch.toFetch : Len(fetch.takers[i]) = 1

\* a call that asked for the concurrency 0 ran one worker, which took the
\* three parts one after the other, and the call has ended
C26_ClampWitness ==
    /\ SettledAfterWorkers
    /\ fetch.requested = [given |-> TRUE, value |-> 0] /\ fetch.concurrency = 1
    /\ Len(fetch.toFetch) = 3
    /\ \A i \in DOMAIN fetch.toFetch : fetch.takers[i] = <<1>>

(***************************************************************************)
(* Selections against each other: sections labeled [a] and [a, b], lines   *)
(* before the first heading, with and without a drop rule, under the       *)
(* selections [], [a], [" a "], [b], [a, b] and [" "].                     *)
(***************************************************************************)
SelAlphabet ==
    {H(1, T1), H(2, T2), MetaLabels(<<La>>), MetaLabels(<<La, Lb>>), Body}

SelSelections ==
    {<<>>, <<La>>, <<PaddedLabel(<<"a">>)>>, <<Lb>>, <<La, Lb>>, <<PaddedLabel(<<"">>)>>}

SelOptions == {Options(s, d) : s \in SelSelections, d \in {{}, {T2}}}

InitSel == InitDoc(SelAlphabet)

TypeSelLine == AddLine(SelAlphabet)

FilterSelected == Filter(SelOptions)

NextSel == TypeSelLine \/ FilterSelected

SpecSel == InitSel /\ [][NextSel]_vars

\* the labels of a selection that count: trimmed, the empty ones left out
Normalized(selection) ==
    {trim(selection[k]) : k \in {x \in DOMAIN selection : trim(selection[x]).s # <<"">>}}

\* what the filter returns for the same text and drop rules under another
\* selection
ResultFor(selection) == filterPartContent(lines, [opts EXCEPT !.includeLabels = selection])

\* C27: for two selections that hold a label each, the second with every
\* label of the first, each line of the text that is in the template for
\* the first is in the template for the second, with the same drop rules.
C27_Monotone ==
    (Done /\ Normalized(opts.includeLabels) # {}) =>
        \A larger \in SelSelections :
            Normalized(opts.includeLabels) \subseteq Normalized(larger) =>
                LinesIn(res.templateContent)
                    \subseteq LinesIn(ResultFor(larger).templateContent)

\* under the selection [a] and a drop rule the template holds the section
\* labeled [a] and not the one labeled [a, b], which the template for
\* [a, b] holds as well
C27_Witness ==
    /\ Done /\ opts.includeLabels = <<La>> /\ opts.dropTitles # {}
    /\ \E n, m \in DOMAIN res.nodes :
          /\ LabelsOf(n) = <<La>> /\ InTemplate(HeadingLine(n))
          /\ LabelsOf(m) = <<La, Lb>> /\ ~InTemplate(HeadingLine(m))
          /\ HeadingLine(m) \in LinesIn(ResultFor(<<La, Lb>>).templateContent)
          /\ HeadingLine(n) \in LinesIn(ResultFor(<<La, Lb>>).templateContent)

\* every labeled section of the text carries selected labels only
EveryLabeledSectionMatches ==
    \A n \in DOMAIN res.nodes :
        \A k \in DOMAIN LabelsOf(n) : trim(LabelsOf(n)[k]) \in Normalized(opts.includeLabels)

\* the lines before the first section of the text
Preamble ==
    {i \in 0 .. Len(lines) - 1 : \A n \in DOMAIN res.nodes : i < res.nodes[n].startLine}

\* C28: under a selection that every labeled section of the text matches,
\* the two outputs are the outputs of the empty selection with the same
\* drop rules, the lines before the first heading included.
C28_SameAsEmptySelection ==
    (Done /\ Normalized(opts.includeLabels) # {} /\ EveryLabeledSectionMatches) =>
        /\ res.templateContent = ResultFor(<<>>).templateContent
        /\ res.blankContent = ResultFor(<<>>).blankContent

\* the same for the texts whose first line opens their first section
C28_WithoutPreamble ==
    (Done /\ Normalized(opts.includeLabels) # {} /\ EveryLabeledSectionMatches
          /\ Preamble = {}) =>
        /\ res.templateContent = ResultFor(<<>>).templateContent
        /\ res.blankContent = ResultFor(<<>>).blankContent

\* the lines that the selection loses are lines before the first section
C28_OnlyPreambleLost ==
    (Done /\ Normalized(opts.includeLabels) # {} /\ EveryLabeledSectionMatches) =>
        /\ LinesIn(ResultFor(<<>>).templateContent) \ LinesIn(res.templateContent)
              \subseteq Preamble
        /\ LinesIn(res.templateContent) \subseteq LinesIn(ResultFor(<<>>).templateContent)

\* the sections whose heading line is in the template
SectionsInTemplate == {n \in DOMAIN res.nodes : InTemplate(NthHeading(n))}

\* C29: the count of kept sections that the filter returns is the number of
\* sections whose heading line is in the template.
C29_KeptSectionsCount ==
    Done => res.keptSections = Cardinality(SectionsInTemplate)

\* the same without drop rules, for the texts in which the first level-1
\* heading does not open a labeled section that the selection leaves out
C29_LabelsOnly ==
    (Done /\ opts.dropTitles = {}
          /\ \A n \in DOMAIN res.nodes :
                IsFirstHashLine(NthHeading(n)) =>
                    \A k \in DOMAIN LabelsOf(n) :
                        trim(LabelsOf(n)[k]) \in Normalized(opts.includeLabels)
                        \/ Normalized(opts.includeLabels) = {}) =>
        res.keptSections = Cardinality(SectionsInTemplate)

(***************************************************************************)
(* Where the references of the See also paragraphs lead.                   *)
(***************************************************************************)
\* the line of the n-th heading of a text
HeadingOf(content, n) ==
    CHOOSE i \in 0 .. Len(content) - 1 :
        /\ content[i + 1].k = "h"
        /\ Cardinality({j \in 0 .. i : content[j + 1].k = "h"}) = n

\* the See also paragraphs of the two contents of a filtered part
ParagraphsOf(filtered) ==
    {filtered.templateContent.ls[j] :
        j \in {x \in DOMAIN filtered.templateContent.ls :
                  filtered.templateContent.ls[x].t = "seeAlso"}}
    \cup {filtered.blankContent.ls[j] :
             j \in {x \in DOMAIN filtered.blankContent.ls :
                       filtered.blankContent.ls[x].t = "seeAlso"}}

\* the references of the See also paragraphs of the filtered parts, each as
\* <<file it leads to, id>>
References ==
    UNION {{<<IF e.refs[r].kind = "xref" THEN e.refs[r].file
              ELSE build.filteredParts[j].file,
              e.refs[r].id>> : r \in DOMAIN e.refs} :
           <<j, e>> \in {x \in (DOMAIN build.filteredParts)
                              \X UNION {ParagraphsOf(build.filteredParts[j]) :
                                           j \in DOMAIN build.filteredParts} :
                            x[2] \in ParagraphsOf(build.filteredParts[x[1]])}}

\* a section of the file carries the id
InFetchedParts(ref) ==
    \E p \in DOMAIN build.parts :
        /\ build.parts[p].file = ref[1]
        /\ \E n \in DOMAIN build.parts[p].sections :
              build.parts[p].sections[n].metadata.id = ref[2]

\* a section of the file carries the id and its heading is in the template
\* of the filtered part of that file
InGeneratedOutput(ref) ==
    \E p \in DOMAIN build.parts, j \in DOMAIN build.filteredParts :
        /\ build.parts[p].file = ref[1]
        /\ build.filteredParts[j].file = ref[1]
        /\ \E n \in DOMAIN build.parts[p].sections :
              /\ build.parts[p].sections[n].metadata.id = ref[2]
              /\ HeadingOf(build.parts[p].content, n)
                     \in LinesIn(build.filteredParts[j].templateContent)

\* C30: when the call has returned, every reference of a See also
\* paragraph of a filtered part leads to a section whose heading is in the
\* template of the filtered part of its file.
C30_NoDanglingReference ==
    pc = "returned" => \A ref \in References : InGeneratedOutput(ref)

\* every reference leads to a section of the parts that were fetched
C30_TargetsInFetchedParts ==
    pc = "returned" => \A ref \in References : InFetchedParts(ref)

\* with no selection and no drop rule every reference leads to a section of
\* the output
C30_NothingRemoved ==
    (pc = "returned" /\ build.labelsToInclude = <<>>
         /\ \A f \in DOMAIN build.dropByPart : build.dropByPart[f] = {}) =>
        \A ref \in References : InGeneratedOutput(ref)

====
